---- MODULE Spec2Model ----
(***************************************************************************)
(* Model of the job-placement, job-tree and volume-application machinery   *)
(* of the worker (src/src/worker.cpp) and of the job lifecycle             *)
(* (src/src/app/job.cpp).                                                  *)
(*                                                                         *)
(* A fleet of commSize workers and one client exchange tagged messages     *)
(* over point-to-point channels that are FIFO per ordered pair of peers.   *)
(* Every handler of worker.cpp is one action; the operations it calls      *)
(* (setLoad, updateVolume, interruptJob, the Job methods) are operators    *)
(* that transform a handler context.  A failed assert() of the code is     *)
(* recorded in the worker's field "failed"; a failed worker takes no       *)
(* further step.                                                           *)
(*                                                                         *)
(* Components that do not depend on the fleet are followed on their own,   *)
(* each in a specification of its own: the cutoff-priority balancer, the   *)
(* event maps of the event-driven balancer, the demand curve of a job and  *)
(* the clause communicator of one node of a job tree.                      *)
(***************************************************************************)
EXTENDS Integers, Sequences, FiniteSets, TLC

\* ------------------------------------------------------------------ bounds
commSize == 3       \* number of worker ranks (MyMpi::size(comm))
NumJobs == 2        \* number of jobs the client may submit
MaxEpoch == 3       \* balancing epochs a worker may complete
MaxHops == 3        \* hops a request makes before the model stops following it
MaxChan == 2        \* messages in flight on one ordered channel
MaxBalJobs == 2     \* jobs that take part in a balancing
MaxPriority == 5    \* priorities are the odd numbers up to this one
MaxBalEpochs == 1   \* balancing epochs of the balancer examined on its own
MaxEventEpoch == 3  \* epochs of the events of the first job
MaxElapsed == 35    \* seconds a job's activation is followed
MaxCommEpoch == 2   \* job communication epochs of clause exchange
MaxHandled == 3     \* calls of a clause communicator that are followed

Ranks == 0 .. (commSize - 1)
Client == commSize
Nodes == Ranks \cup {Client}
JobIds == 1 .. NumJobs
NoRank == 0 - 1
NoJob == 0

VARIABLES
    worker,     \* worker[r]: the Worker object of rank r
    chan,       \* chan[s][d]: messages sent by s, not yet polled by d (FIFO)
    deferred,   \* deferred[r]: handles passed to MyMpi::deferHandle
    client,     \* client[j]: what the client has done for job j
    lastTrans,  \* the job state changes made by the last handler
    env,        \* what the environment of this run does (never changes)
    balancer,   \* the CutoffPriorityBalancer of one epoch, seen fleet-wide
    eventMaps,  \* EventMaps of the event-driven balancer: broadcasts, states
    demandJob,  \* a Job whose demand is asked for as time passes
    clauseComm, \* the SatClauseCommunicator of one node of a job tree
    collective, \* the balancers of a fleet in the collectives of one epoch
    localBalancer \* the balancer of one worker when a balancing begins

\* The fleet, and the components that are examined on their own.
fleet == <<worker, chan, deferred, client, lastTrans, env>>
units == <<balancer, eventMaps, demandJob, clauseComm, collective,
          localBalancer>>
vars == <<worker, chan, deferred, client, lastTrans, env, units>>

\* ------------------------------------------------------------ job requests
NoReq ==
    [jobId |-> NoJob, rootRank |-> NoRank, requestingNodeRank |-> NoRank,
     requestedNodeIndex |-> 0, numHops |-> 0, fullTransfer |-> 0, epoch |-> 0]

JobRequest(jobId, rootRank, requestingNodeRank, requestedNodeIndex, epoch, numHops) ==
    [jobId |-> jobId, rootRank |-> rootRank,
     requestingNodeRank |-> requestingNodeRank,
     requestedNodeIndex |-> requestedNodeIndex,
     numHops |-> numHops, fullTransfer |-> 0, epoch |-> epoch]

Msg(tag, jobId, req, val) == [tag |-> tag, jobId |-> jobId, req |-> req, val |-> val]

\* ------------------------------------------------------------------- jobs
\* Job::Job: a fresh instance is INACTIVE, has no description and no peers.
NewJob ==
    [known |-> TRUE, state |-> "INACTIVE", committed |-> FALSE, index |-> 0,
     rootRank |-> NoRank, parentRank |-> NoRank,
     left |-> NoRank, right |-> NoRank, past |-> {},
     hasDesc |-> FALSE, volume |-> 0, lastVolume |-> 0, doneLocally |-> FALSE]

UnknownJob == [NewJob EXCEPT !.known = FALSE]

\* The state the worker sees: a job that holds a commitment and still waits
\* for its description is COMMITTED.
getState(job) ==
    IF job.state = "INACTIVE" /\ job.committed /\ ~job.hasDesc
    THEN "COMMITTED" ELSE job.state

isRoot(job) == job.index = 0
getLeftChildIndex(job) == 2 * job.index + 1
getRightChildIndex(job) == 2 * job.index + 2
hasLeftChild(job) == job.left # NoRank
hasRightChild(job) == job.right # NoRank
unsetLeftChild(job) ==
    IF hasLeftChild(job)
    THEN [job EXCEPT !.left = NoRank, !.past = @ \cup {job.left}] ELSE job
unsetRightChild(job) ==
    IF hasRightChild(job)
    THEN [job EXCEPT !.right = NoRank, !.past = @ \cup {job.right}] ELSE job

\* --------------------------------------------------------- handler context
\* c.w is the worker being changed, c.out the messages it has isend()-ed,
\* c.trans the job state changes made so far, c.defer whether the handle
\* was passed to deferHandle.
Ctx(r) == [self |-> r, w |-> worker[r], out |-> <<>>, trans |-> {}, defer |-> FALSE]

ok(c) == c.w.failed = "none"
Fail(c, what) == IF ok(c) THEN [c EXCEPT !.w.failed = what] ELSE c
isend(c, dst, msg) ==
    IF ok(c) THEN [c EXCEPT !.out = Append(@, [dst |-> dst, msg |-> msg])] ELSE c

hasJob(c, j) == c.w.jobs[j].known
getJob(c, j) == c.w.jobs[j]

\* Replace job j by nj, recording the change of state under the name op.
SetJob(c, j, nj, op) ==
    LET old == getState(c.w.jobs[j])
        new == getState(nj)
    IN  [c EXCEPT !.w.jobs[j] = nj,
                  !.trans = IF old = new THEN @
                            ELSE @ \cup {[job |-> j, from |-> old, to |-> new, op |-> op]}]

\* ------------------------------------------------------- Job (app/job.cpp)
\* Job::updateJobTree: index 0 has no root rank; the tree keeps index,
\* root rank and parent rank.
updateJobTree(job, index, rootRank, parentRank) ==
    [job EXCEPT !.index = index,
                !.rootRank = IF index = 0 THEN NoRank ELSE rootRank,
                !.parentRank = parentRank]

\* Job::commit: asserts the job is neither ACTIVE nor PAST, stores the
\* commitment and moves the job to the requested tree slot.
commit(c, j, req) ==
    LET job == getJob(c, j) IN
    IF ~ok(c) THEN c
    ELSE IF job.state = "ACTIVE" \/ job.state = "PAST" THEN Fail(c, "assert:commit")
    ELSE SetJob(c, j,
                updateJobTree([job EXCEPT !.committed = TRUE],
                              req.requestedNodeIndex, req.rootRank,
                              req.requestingNodeRank),
                "commit")

\* Job::uncommit: asserts the job is not ACTIVE and drops the commitment.
uncommit(c, j) ==
    LET job == getJob(c, j) IN
    IF ~ok(c) THEN c
    ELSE IF job.state = "ACTIVE" THEN Fail(c, "assert:uncommit")
    ELSE SetJob(c, j, [job EXCEPT !.committed = FALSE], "uncommit")

\* A start that brings the job to ACTIVE but keeps no description.
startWithoutDescription(c, j) ==
    LET job == getJob(c, j) IN
    IF ~ok(c) THEN c
    ELSE IF job.state # "INACTIVE" THEN Fail(c, "assert:start")
    ELSE SetJob(c, j, [job EXCEPT !.volume = 1, !.state = "ACTIVE"], "start")

\* Job::start: assertState(INACTIVE); volume 1, description deserialized,
\* state ACTIVE.
start(c, j) ==
    LET job == getJob(c, j) IN
    IF ~ok(c) THEN c
    ELSE IF job.state # "INACTIVE" THEN Fail(c, "assert:start")
    ELSE SetJob(c, j, [job EXCEPT !.volume = 1, !.hasDesc = TRUE, !.state = "ACTIVE"],
                "start")

\* Job::stop: assertState(ACTIVE); state INACTIVE.
stop(c, j) ==
    LET job == getJob(c, j) IN
    IF ~ok(c) THEN c
    ELSE IF job.state # "ACTIVE" THEN Fail(c, "assert:stop")
    ELSE SetJob(c, j, [job EXCEPT !.state = "INACTIVE"], "stop")

\* A suspend that leaves the job INACTIVE instead of SUSPENDED.
suspendToInactive(c, j) ==
    LET job == getJob(c, j) IN
    IF ~ok(c) THEN c
    ELSE IF job.state # "ACTIVE" THEN Fail(c, "assert:suspend")
    ELSE SetJob(c, j, [job EXCEPT !.state = "INACTIVE", !.volume = 0], "suspend")

\* Job::suspend: assertState(ACTIVE); state SUSPENDED, volume 0.
suspend(c, j) ==
    LET job == getJob(c, j) IN
    IF ~ok(c) THEN c
    ELSE IF job.state # "ACTIVE" THEN Fail(c, "assert:suspend")
    ELSE SetJob(c, j, [job EXCEPT !.state = "SUSPENDED", !.volume = 0], "suspend")

\* Job::resume: assertState(SUSPENDED); state ACTIVE.
resume(c, j) ==
    LET job == getJob(c, j) IN
    IF ~ok(c) THEN c
    ELSE IF job.state # "SUSPENDED" THEN Fail(c, "assert:resume")
    ELSE SetJob(c, j, [job EXCEPT !.state = "ACTIVE"], "resume")

\* Job::terminate: assertState(INACTIVE); state PAST, volume 0, both child
\* pointers unset.
terminate(c, j) ==
    LET job == getJob(c, j) IN
    IF ~ok(c) THEN c
    ELSE IF job.state # "INACTIVE" THEN Fail(c, "assert:terminate")
    ELSE SetJob(c, j,
                unsetRightChild(unsetLeftChild(
                    [job EXCEPT !.state = "PAST", !.volume = 0])),
                "terminate")

\* Job::reinitialize (called on an ACCEPT that needs no transfer): the job
\* takes the committed slot and runs again with the description it holds:
\* a suspended job resumes, any other job starts.
reinitialize(c, j, index, rootRank, parentRank) ==
    LET job == getJob(c, j)
        c1 == SetJob(c, j, updateJobTree(job, index, rootRank, parentRank), "reinitialize")
    IN  IF ~ok(c) THEN c
        ELSE IF job.state = "SUSPENDED" THEN resume(c1, j)
        ELSE start(c1, j)

\* ---------------------------------------------------- Worker (worker.cpp)
\* A worker that never finds itself committed.
neverCommitted(c) == FALSE

isIdle(c) == c.w.load = 0
hasJobCommitments(c) == \E j \in JobIds : c.w.jobCommitments[j] # NoReq

\* A cap on the hops of a request for a child slot that is one half too wide.
maxJobHopsWide(rootNode) == IF rootNode THEN commSize \div 2 ELSE commSize * 3

\* Worker::maxJobHops
maxJobHops(rootNode) == IF rootNode THEN commSize \div 2 ELSE commSize * 2

\* Worker::setLoad: asserts (load WAS 1) XOR (load BECOMES 1), that the job
\* is known, and that the current-job pointer is null exactly when the
\* worker was idle.
setLoad(c, load, whichJobId) ==
    IF ~ok(c) THEN c
    ELSE IF load + c.w.load # 1 THEN Fail(c, "assert:setLoad:xor")
    ELSE IF ~hasJob(c, whichJobId) THEN Fail(c, "assert:setLoad:hasJob")
    ELSE IF load = 1 /\ c.w.currentJob # NoJob THEN Fail(c, "assert:setLoad:current")
    ELSE IF load = 0 /\ c.w.currentJob = NoJob THEN Fail(c, "assert:setLoad:current")
    ELSE [c EXCEPT !.w.load = load,
                   !.w.currentJob = IF load = 1 THEN whichJobId ELSE NoJob]

\* Balancer::hasVolume / getVolume / updateVolume: the balancer's volume map.
hasVolume(c, j) == c.w.volumes[j] # NoRank
getVolume(c, j) == IF hasVolume(c, j) THEN c.w.volumes[j] ELSE 0
balancerUpdateVolume(c, j, v) == IF ok(c) THEN [c EXCEPT !.w.volumes[j] = v] ELSE c

\* Worker::isRequestObsolete: a request for a child slot that was minted in
\* an epoch older than the recipient's is obsolete; a request for the root
\* slot belongs to a job that has no earlier epoch.
isRequestObsolete(c, req) == req.requestedNodeIndex > 0 /\ req.epoch < c.w.epoch

\* JobTree::getRootNodeRank: the root names itself.
getRootNodeRank(c, j) ==
    IF isRoot(getJob(c, j)) THEN c.self ELSE getJob(c, j).rootRank

\* Mark src as the child at the requested index (worker.cpp:506-510, 585-589).
markChild(c, j, req, src) ==
    LET job == getJob(c, j) IN
    IF ~ok(c) THEN c
    ELSE IF req.requestedNodeIndex = getLeftChildIndex(job)
         THEN SetJob(c, j, [job EXCEPT !.left = src], "setLeftChild")
    ELSE IF req.requestedNodeIndex = getRightChildIndex(job)
         THEN SetJob(c, j, [job EXCEPT !.right = src], "setRightChild")
    ELSE IF req.requestedNodeIndex # 0 THEN Fail(c, "assert:childIndex")
    ELSE c

\* Worker::bounceJobRequest: one more hop, sent to a worker that is neither
\* this worker, nor the requester, nor the sender.  The loop that looks for
\* such a worker does not end when there is none.
BounceTargets(r, req, senderRank) ==
    Ranks \ {r, req.requestingNodeRank, senderRank}

\* A request that is passed on as it came.
sameHops(request) == request

\* bounceJobRequest: request.numHops++
incrementHops(request) == [request EXCEPT !.numHops = @ + 1]

bounceJobRequest(c, request, senderRank, nextRank) ==
    LET req == incrementHops(request) IN
    IF ~ok(c) THEN c
    ELSE IF BounceTargets(c.self, request, senderRank) = {} THEN Fail(c, "hang:bounce")
    ELSE isend(c, nextRank, Msg("FIND_NODE", req.jobId, req, 0))

\* worker.cpp:424-446: commit to the request and offer to become the child.
adoptRequest(c, request) ==
    LET j == request.jobId
        fullTransfer == ~hasJob(c, j) \/ ~getJob(c, j).hasDesc
        req == [request EXCEPT !.fullTransfer = IF fullTransfer THEN 1 ELSE 0]
        c1 == IF hasJob(c, j) THEN c ELSE [c EXCEPT !.w.jobs[j] = NewJob]
        c2 == commit(c1, j, req)
        c3 == IF ok(c2) THEN [c2 EXCEPT !.w.jobCommitments[j] = req] ELSE c2
    IN  IF ~ok(c) THEN c
        ELSE IF ~isIdle(c) THEN Fail(c, "assert:adoptNotIdle")
        ELSE isend(c3, req.requestingNodeRank, Msg("REQUEST_BECOME_CHILD", j, req, 0))

\* A preemption that does not spare roots and fragments with children.
canPreemptAnyJob(c, req) ==
    /\ req.numHops > maxJobHops(TRUE)
    /\ req.requestedNodeIndex = 0
    /\ ~hasJobCommitments(c)
    /\ (~hasJob(c, req.jobId) \/ getState(getJob(c, req.jobId)) # "ACTIVE")
    /\ c.w.currentJob # NoJob
    /\ getState(getJob(c, c.w.currentJob)) = "ACTIVE"

\* worker.cpp:393-421: a root request beyond its hop cap may take the place
\* of an active, non-root, childless current job.
canPreempt(c, req) ==
    /\ req.numHops > maxJobHops(TRUE)
    /\ req.requestedNodeIndex = 0
    /\ ~hasJobCommitments(c)
    /\ (~hasJob(c, req.jobId) \/ getState(getJob(c, req.jobId)) # "ACTIVE")
    /\ c.w.currentJob # NoJob
    /\ LET job == getJob(c, c.w.currentJob) IN
          /\ getState(job) = "ACTIVE"
          /\ ~isRoot(job) /\ ~hasLeftChild(job) /\ ~hasRightChild(job)

\* A preemption that gives up the load but lets the old job run on.
preemptWithoutSuspend(c) ==
    LET cur == c.w.currentJob
        job == getJob(c, cur)
        c1 == isend(c, job.parentRank, Msg("WORKER_DEFECTING", cur, NoReq, job.index))
    IN  setLoad(c1, 0, cur)

preemptCurrentJob(c) ==
    LET cur == c.w.currentJob
        job == getJob(c, cur)
        c1 == isend(c, job.parentRank, Msg("WORKER_DEFECTING", cur, NoReq, job.index))
    IN  setLoad(suspend(c1, cur), 0, cur)

\* A recipient that does not look at whether the job has finished locally.
handleFindNodeOfPastJob(c, src, req, nextRank) ==
    IF isRequestObsolete(c, req) THEN c
    ELSE IF isIdle(c) /\ ~hasJobCommitments(c) THEN adoptRequest(c, req)
    ELSE IF req.numHops > maxJobHops(req.requestedNodeIndex = 0) /\ req.requestedNodeIndex > 0
         THEN c
    ELSE IF canPreempt(c, req) THEN adoptRequest(preemptCurrentJob(c), req)
    ELSE bounceJobRequest(c, req, src, nextRank)

\* A recipient that adopts a request whenever it is idle, whatever it has
\* committed to.
handleFindNodeWhenIdle(c, src, req, nextRank) ==
    IF isRequestObsolete(c, req) THEN c
    ELSE IF hasJob(c, req.jobId) /\ getJob(c, req.jobId).state = "PAST" THEN c
    ELSE IF isIdle(c) THEN adoptRequest(c, req)
    ELSE IF req.numHops > maxJobHops(req.requestedNodeIndex = 0) /\ req.requestedNodeIndex > 0
         THEN c
    ELSE IF canPreempt(c, req) THEN adoptRequest(preemptCurrentJob(c), req)
    ELSE bounceJobRequest(c, req, src, nextRank)

\* Worker::handleFindNode
WillBounce(c, req) ==
    /\ ~isRequestObsolete(c, req)
    /\ ~(hasJob(c, req.jobId) /\ getJob(c, req.jobId).state = "PAST")
    /\ ~(isIdle(c) /\ ~hasJobCommitments(c))
    /\ ~(req.numHops > maxJobHops(req.requestedNodeIndex = 0) /\ req.requestedNodeIndex > 0)
    /\ ~canPreempt(c, req)

handleFindNode(c, src, req, nextRank) ==
    LET maxHops == maxJobHops(req.requestedNodeIndex = 0) IN
    IF isRequestObsolete(c, req) THEN c
    ELSE IF hasJob(c, req.jobId) /\ getJob(c, req.jobId).state = "PAST" THEN c
    ELSE IF isIdle(c) /\ ~hasJobCommitments(c) THEN adoptRequest(c, req)
    ELSE IF req.numHops > maxHops /\ req.requestedNodeIndex > 0 THEN c
    ELSE IF canPreempt(c, req) THEN adoptRequest(preemptCurrentJob(c), req)
    ELSE bounceJobRequest(c, req, src, nextRank)

\* Worker::handleRequestBecomeChild
rejectsRequest(c, req) ==
    LET job == getJob(c, req.jobId) IN
    \/ isRequestObsolete(c, req)
    \/ getState(job) # "ACTIVE"
    \/ (req.requestedNodeIndex = getLeftChildIndex(job) /\ hasLeftChild(job))
    \/ (req.requestedNodeIndex = getRightChildIndex(job) /\ hasRightChild(job))

handleRequestBecomeChild(c, src, req) ==
    IF ~hasJob(c, req.jobId) THEN Fail(c, "assert:hasJob")
    ELSE IF rejectsRequest(c, req)
         THEN isend(c, src, Msg("REJECT_BECOME_CHILD", req.jobId, req, 0))
    ELSE markChild(isend(c, src, Msg("ACCEPT_BECOME_CHILD", req.jobId, NoReq, 0)),
                   req.jobId, req, src)

\* A rejected worker that uncommits the job but keeps its commitment entry.
handleRejectKeepsEntry(c, src, req) ==
    IF ~hasJob(c, req.jobId) THEN Fail(c, "assert:hasJob")
    ELSE IF getState(getJob(c, req.jobId)) # "COMMITTED" THEN c
    ELSE uncommit(c, req.jobId)

\* Worker::handleRejectBecomeChild
handleRejectBecomeChild(c, src, req) ==
    IF ~hasJob(c, req.jobId) THEN Fail(c, "assert:hasJob")
    ELSE IF getState(getJob(c, req.jobId)) # "COMMITTED" THEN c
    ELSE uncommit([c EXCEPT !.w.jobCommitments[req.jobId] = NoReq], req.jobId)

\* An accepted worker that starts the job at once, before any description
\* has arrived.
handleAcceptStartsAtOnce(c, src, jobId) ==
    LET req == c.w.jobCommitments[jobId] IN
    IF req = NoReq THEN Fail(c, "assert:jobCommitments")
    ELSE IF req.fullTransfer = 1
         THEN start(setLoad(isend(c, src, Msg("ACK_ACCEPT_BECOME_CHILD", jobId, req, 0)),
                            1, jobId), jobId)
    ELSE [c EXCEPT !.w.jobCommitments[jobId] = NoReq]

\* Worker::handleAcceptBecomeChild
handleAcceptBecomeChild(c, src, jobId) ==
    LET req == c.w.jobCommitments[jobId]
        c1 == IF getJob(c, jobId).state # "PAST"
              THEN reinitialize(setLoad(c, 1, jobId), jobId, req.requestedNodeIndex,
                                req.rootRank, req.requestingNodeRank)
              ELSE c
    IN  IF req = NoReq THEN Fail(c, "assert:jobCommitments")
        ELSE IF req.fullTransfer = 1
             THEN isend(c, src, Msg("ACK_ACCEPT_BECOME_CHILD", jobId, req, 0))
        ELSE IF ~hasJob(c, jobId) THEN Fail(c, "assert:hasJob")
        ELSE IF ok(c1) THEN [c1 EXCEPT !.w.jobCommitments[jobId] = NoReq] ELSE c1

\* Job::getSerializedDescription: a terminated job serializes to its id only.
sendsFullDescription(job) == job.hasDesc /\ job.state # "PAST"

\* Worker::handleAckAcceptBecomeChild
handleAckAcceptBecomeChild(c, src, req) ==
    LET j == req.jobId
        job == getJob(c, j)
        c1 == isend(c, src, Msg("SEND_JOB_DESCRIPTION", j, NoReq,
                                IF sendsFullDescription(job) THEN 1 ELSE 0))
        c2 == markChild(c1, j, req, src)
        volume == getVolume(c2, j)
    IN  IF ~hasJob(c, j) THEN Fail(c, "assert:hasJob")
        ELSE IF job.state = "PAST" THEN isend(c1, src, Msg("TERMINATE", j, NoReq, 0))
        ELSE IF getState(job) # "ACTIVE" THEN c2
        ELSE IF volume < 1 THEN Fail(c2, "assert:volume")
        ELSE isend(c2, src, Msg("UPDATE_VOLUME", j, NoReq, volume))

\* A prune that does not signal: the left child is unset without being sent
\* the volume that prunes it.
growLeftOrPruneSilently(c, jobId, volume, nl) ==
    LET job == getJob(c, jobId)
        nextIndex == getLeftChildIndex(job)
    IN  IF ~ok(c) THEN c
        ELSE IF hasLeftChild(job)
             THEN IF nextIndex >= volume
                  THEN SetJob(c, jobId, unsetLeftChild(job), "unsetLeftChild")
                  ELSE isend(c, job.left, Msg("UPDATE_VOLUME", jobId, NoReq, volume))
        ELSE IF job.hasDesc /\ nextIndex < volume /\ c.w.jobCommitments[jobId] = NoReq
             THEN isend(c, nl, Msg("FIND_NODE", jobId,
                        JobRequest(jobId, getRootNodeRank(c, jobId), c.self, nextIndex,
                                   c.w.epoch, 0), 0))
        ELSE c

\* Worker::updateVolume.  nl and nr are the ranks the job tree names for a
\* missing left and right child.
growLeftOrPrune(c, jobId, volume, nl) ==
    LET job == getJob(c, jobId)
        nextIndex == getLeftChildIndex(job)
    IN  IF ~ok(c) THEN c
        ELSE IF hasLeftChild(job)
             THEN LET c1 == isend(c, job.left, Msg("UPDATE_VOLUME", jobId, NoReq, volume))
                  IN  IF nextIndex >= volume
                      THEN SetJob(c1, jobId, unsetLeftChild(job), "unsetLeftChild")
                      ELSE c1
        ELSE IF job.hasDesc /\ nextIndex < volume /\ c.w.jobCommitments[jobId] = NoReq
             THEN isend(c, nl, Msg("FIND_NODE", jobId,
                        JobRequest(jobId, getRootNodeRank(c, jobId), c.self, nextIndex,
                                   c.w.epoch, 0), 0))
        ELSE c

growRightOrPrune(c, jobId, volume, nr) ==
    LET job == getJob(c, jobId)
        nextIndex == getRightChildIndex(job)
    IN  IF ~ok(c) THEN c
        ELSE IF hasRightChild(job)
             THEN LET c1 == isend(c, job.right, Msg("UPDATE_VOLUME", jobId, NoReq, volume))
                  IN  IF nextIndex >= volume
                      THEN SetJob(c1, jobId, unsetRightChild(job), "unsetRightChild")
                      ELSE c1
        ELSE IF job.hasDesc /\ nextIndex < volume /\ c.w.jobCommitments[jobId] = NoReq
             THEN isend(c, nr, Msg("FIND_NODE", jobId,
                        JobRequest(jobId, getRootNodeRank(c, jobId), c.self, nextIndex,
                                   c.w.epoch, 0), 0))
        ELSE c

\* A shrink that keeps the fragment whose index equals the volume.
shrinkIfBeyond(c, jobId, volume) ==
    LET thisIndex == getJob(c, jobId).index IN
    IF ~ok(c) THEN c
    ELSE IF thisIndex > 0 /\ thisIndex > volume
         THEN setLoad(suspend(c, jobId), 0, jobId)
    ELSE c

shrinkIfNeeded(c, jobId, volume) ==
    LET thisIndex == getJob(c, jobId).index IN
    IF ~ok(c) THEN c
    ELSE IF thisIndex > 0 /\ thisIndex >= volume
         THEN setLoad(suspend(c, jobId), 0, jobId)
    ELSE c

\* A volume application that does not look at the state of the job.
updateVolumeInAnyState(c, jobId, volume, nl, nr) ==
    LET c1 == SetJob(c, jobId, [getJob(c, jobId) EXCEPT !.lastVolume = volume],
                     "setLastVolume")
    IN  IF ~ok(c) THEN c
        ELSE IF ~hasJob(c, jobId) THEN Fail(c, "assert:hasJob")
        ELSE shrinkIfNeeded(
                 growRightOrPrune(growLeftOrPrune(c1, jobId, volume, nl),
                                  jobId, volume, nr),
                 jobId, volume)

updateVolume(c, jobId, volume, nl, nr) ==
    LET c1 == SetJob(c, jobId, [getJob(c, jobId) EXCEPT !.lastVolume = volume],
                     "setLastVolume")
    IN  IF ~ok(c) THEN c
        ELSE IF ~hasJob(c, jobId) THEN Fail(c, "assert:hasJob")
        ELSE IF getState(getJob(c1, jobId)) # "ACTIVE" THEN c1
        ELSE shrinkIfNeeded(
                 growRightOrPrune(growLeftOrPrune(c1, jobId, volume, nl),
                                  jobId, volume, nr),
                 jobId, volume)

\* Worker::handleUpdateVolume
handleUpdateVolume(c, jobId, volume, nl, nr) ==
    IF ~hasJob(c, jobId) THEN c
    ELSE updateVolume(balancerUpdateVolume(c, jobId, volume), jobId, volume, nl, nr)

\* Worker::handleQueryVolume: the parent answers with the volume it knows.
handleQueryVolume(c, src, jobId) ==
    IF ~hasJob(c, jobId) THEN Fail(c, "assert:hasJob")
    ELSE IF ~hasVolume(c, jobId) THEN c
    ELSE isend(c, src, Msg("UPDATE_VOLUME", jobId, NoReq, getVolume(c, jobId)))

\* Worker::mainProgram, the end of an initialization: a root applies the
\* volume it knows, any other fragment asks its parent for the volume.
finishInitialization(c, jobId, nl, nr) ==
    IF ~ok(c) THEN c
    ELSE IF isRoot(getJob(c, jobId))
         THEN IF hasVolume(c, jobId)
              THEN updateVolume(c, jobId, getVolume(c, jobId), nl, nr) ELSE c
    ELSE isend(c, getJob(c, jobId).parentRank, Msg("QUERY_VOLUME", jobId, NoReq, 0))

\* Worker::handleSendJob with Worker::initJob: an empty description (the job
\* id only) uncommits; a full one raises the load and starts the job.
\* A recipient that takes every description, the empty one too, for a full one.
handleSendJobAlwaysStarts(c, src, jobId, full, nl, nr) ==
    LET c1 == [c EXCEPT !.w.jobCommitments[jobId] = NoReq] IN
    IF ~hasJob(c, jobId) THEN Fail(c, "assert:hasJob")
    ELSE finishInitialization(start(setLoad(c1, 1, jobId), jobId), jobId, nl, nr)

handleSendJob(c, src, jobId, full, nl, nr) ==
    LET c1 == [c EXCEPT !.w.jobCommitments[jobId] = NoReq] IN
    IF ~hasJob(c, jobId) THEN Fail(c, "assert:hasJob")
    ELSE IF full = 0
         THEN IF getState(getJob(c1, jobId)) = "COMMITTED" THEN uncommit(c1, jobId) ELSE c1
    ELSE finishInitialization(start(setLoad(c1, 1, jobId), jobId), jobId, nl, nr)

\* A parent that forgets the defected child and looks for no replacement.
handleWorkerDefectingQuietly(c, jobId, index, nextNodeRank) ==
    LET job == getJob(c, jobId) IN
    IF ~hasJob(c, jobId) THEN Fail(c, "assert:hasJob")
    ELSE IF getLeftChildIndex(job) = index
         THEN SetJob(c, jobId, unsetLeftChild(job), "unsetLeftChild")
    ELSE IF getRightChildIndex(job) = index
         THEN SetJob(c, jobId, unsetRightChild(job), "unsetRightChild")
    ELSE Fail(c, "fail:unknownChild")

\* Worker::handleWorkerDefecting
handleWorkerDefecting(c, jobId, index, nextNodeRank) ==
    LET job == getJob(c, jobId)
        c1 == IF getLeftChildIndex(job) = index
              THEN SetJob(c, jobId, unsetLeftChild(job), "unsetLeftChild")
              ELSE IF getRightChildIndex(job) = index
              THEN SetJob(c, jobId, unsetRightChild(job), "unsetRightChild")
              ELSE Fail(c, "fail:unknownChild")
    IN  IF ~hasJob(c, jobId) THEN Fail(c, "assert:hasJob")
        ELSE isend(c1, nextNodeRank, Msg("FIND_NODE", jobId,
                   JobRequest(jobId, getRootNodeRank(c, jobId), c.self, index,
                              c.w.epoch, 0), 0))

\* Worker::interruptJob
propagateInterruption(c, jobId, msgTag, acceptMessage) ==
    LET job == getJob(c, jobId)
        c1 == IF acceptMessage /\ hasLeftChild(job)
              THEN isend(c, job.left, Msg(msgTag, jobId, NoReq, 0)) ELSE c
        c2 == IF acceptMessage /\ hasRightChild(job)
              THEN isend(c1, job.right, Msg(msgTag, jobId, NoReq, 0)) ELSE c1
        SendAll[S \in SUBSET Ranks] ==
            IF S = {} THEN c2
            ELSE LET r == CHOOSE x \in S : \A y \in S : x <= y
                 IN  isend(SendAll[S \ {r}], r, Msg(msgTag, jobId, NoReq, 0))
    IN  SetJob(SendAll[job.past], jobId, [job EXCEPT !.past = {}], "clearPastChildren")

stopAndTerminate(c, jobId, doTerminate) ==
    LET c1 == stop(c, jobId)
        c2 == IF ok(c1) /\ c1.w.load = 1 /\ c1.w.currentJob = jobId
              THEN setLoad(c1, 0, jobId) ELSE c1
    IN  IF ~doTerminate THEN c1
        ELSE balancerUpdateVolume(terminate(c2, jobId), jobId, 0)

\* An interruption that never defers its handle.
interruptJobAtOnce(c, jobId, doTerminate, reckless) ==
    LET job == getJob(c, jobId)
        acceptMessage == getState(job) \notin {"INACTIVE", "PAST"}
        msgTag == IF doTerminate /\ reckless THEN "ABORT"
                  ELSE IF doTerminate THEN "TERMINATE" ELSE "INTERRUPT"
        c1 == propagateInterruption(c, jobId, msgTag, acceptMessage)
    IN  IF ~ok(c) THEN c
        ELSE IF ~hasJob(c, jobId) THEN Fail(c, "assert:hasJob")
        ELSE IF acceptMessage /\ getState(job) \in {"ACTIVE", "SUSPENDED"}
             THEN stopAndTerminate(c1, jobId, doTerminate)
        ELSE c1

interruptJob(c, jobId, doTerminate, reckless) ==
    LET job == getJob(c, jobId)
        c0 == IF ~reckless /\ getState(job) = "COMMITTED"
              THEN [c EXCEPT !.defer = TRUE] ELSE c
        acceptMessage == getState(job) \notin {"INACTIVE", "PAST"}
        msgTag == IF doTerminate /\ reckless THEN "ABORT"
                  ELSE IF doTerminate THEN "TERMINATE" ELSE "INTERRUPT"
        c1 == propagateInterruption(c0, jobId, msgTag, acceptMessage)
    IN  IF ~ok(c) THEN c
        ELSE IF ~hasJob(c, jobId) THEN Fail(c, "assert:hasJob")
        ELSE IF acceptMessage /\ getState(job) \in {"ACTIVE", "SUSPENDED"}
             THEN stopAndTerminate(c1, jobId, doTerminate)
        ELSE c1

\* Worker::handleTerminate
handleTerminate(c, jobId) == interruptJob(c, jobId, TRUE, FALSE)

\* Worker::handleAbort
handleAbort(c, jobId) ==
    IF ~hasJob(c, jobId) THEN Fail(c, "assert:hasJob")
    ELSE interruptJob(
             IF isRoot(getJob(c, jobId))
             THEN isend(c, getJob(c, jobId).parentRank, Msg("ABORT", jobId, NoReq, 0))
             ELSE c,
             jobId, TRUE, TRUE)

\* Worker::informClient
informClient(c, jobId, clientRank) == isend(c, clientRank, Msg("JOB_DONE", jobId, NoReq, 0))

\* A root that takes every result, those of a finished job too.
handleEveryFoundResult(c, src, jobId) ==
    LET job == getJob(c, jobId)
        c1 == IF src = c.self THEN informClient(c, jobId, job.parentRank)
              ELSE isend(c, src, Msg("FORWARD_CLIENT_RANK", jobId, NoReq, job.parentRank))
    IN  IF ~(hasJob(c, jobId) /\ isRoot(job)) THEN Fail(c, "assert:isRoot")
        ELSE handleTerminate(c1, jobId)

\* Worker::handleWorkerFoundResult (jobs are not incremental)
handleWorkerFoundResult(c, src, jobId) ==
    LET job == getJob(c, jobId)
        c1 == IF src = c.self THEN informClient(c, jobId, job.parentRank)
              ELSE isend(c, src, Msg("FORWARD_CLIENT_RANK", jobId, NoReq, job.parentRank))
    IN  IF ~(hasJob(c, jobId) /\ isRoot(job)) THEN Fail(c, "assert:isRoot")
        ELSE IF job.state = "PAST" THEN c
        ELSE handleTerminate(c1, jobId)

\* Worker::handleForwardClientRank
handleForwardClientRank(c, jobId, clientRank) ==
    IF ~hasJob(c, jobId) THEN Fail(c, "assert:hasJob")
    ELSE informClient(c, jobId, clientRank)

\* CutoffPriorityBalancer::beginBalancing: the jobs that take part are the
\* local roots that are active.
participants(c) ==
    {j \in JobIds : hasJob(c, j) /\ isRoot(getJob(c, j))
                    /\ getState(getJob(c, j)) = "ACTIVE"}

\* A balancer that never reports a balancing in flight.
neverBalancing(c) == FALSE

\* Balancer::isBalancing
isBalancing(c) == c.w.balancing

\* Worker::rebalance and CutoffPriorityBalancer::beginBalancing, which
\* asserts that the local jobs of the balancing before are gone (they are
\* deleted, and _balancing is reset, when its result is taken).
rebalance(c) ==
    IF c.w.balancing THEN Fail(c, "assert:localJobs")
    ELSE [c EXCEPT !.w.balancing = TRUE, !.w.balJobs = participants(c)]

\* CutoffPriorityBalancer::getBalancingResult and Worker::finishBalancing:
\* the balancer stores the volumes and ends the epoch; the worker advances
\* its epoch counter and applies every volume of the result.
finishBalancing(c, volumes, nl, nr) ==
    LET jobsOfResult == c.w.balJobs
        Store[S \in SUBSET JobIds] ==
            IF S = {} THEN [c EXCEPT !.w.balancing = FALSE, !.w.balJobs = {},
                                     !.w.epoch = @ + 1]
            ELSE LET j == CHOOSE x \in S : \A y \in S : x <= y
                 IN  balancerUpdateVolume(Store[S \ {j}], j, volumes[j])
        Apply[S \in SUBSET JobIds] ==
            IF S = {} THEN Store[jobsOfResult]
            ELSE LET j == CHOOSE x \in S : \A y \in S : x >= y
                 IN  updateVolume(Apply[S \ {j}], j, volumes[j], nl, nr)
    IN  Apply[jobsOfResult]

\* Worker::timeoutJob: a virtual self message aborting the job.
timeoutJob(c, jobId) == handleAbort(c, jobId)

\* ------------------------------------------------------------ the network
ClientSinkTags == {"ABORT", "JOB_DONE"}

\* The channels after r has sent the messages of out, in order.  What the
\* client only takes note of is counted, not queued.
FlushChan(ch, r, out) ==
    LET F[i \in 0 .. Len(out)] ==
            IF i = 0 THEN ch
            ELSE IF out[i].dst = Client /\ out[i].msg.tag \in ClientSinkTags
                 THEN F[i - 1]
                 ELSE [F[i - 1] EXCEPT ![r][out[i].dst] = Append(@, out[i].msg)]
    IN  F[Len(out)]

CountSink(out, j, tag) ==
    Cardinality({i \in 1 .. Len(out) :
                    out[i].dst = Client /\ out[i].msg.tag = tag /\ out[i].msg.jobId = j})

NoMsg == Msg("NONE", NoJob, NoReq, 0)

\* A failed assert() aborts the program: no process takes a further step.
\* A worker caught in the loop of bounceJobRequest stops alone.
NoCrash == \A u \in Ranks : worker[u].failed \in {"none", "hang:bounce"}

\* The step of worker r that ran a handler to the context c, having taken
\* message m sent by src; ch and def are the channels and the deferred
\* handles without that message.
Complete(r, c, ch, def, src, m) ==
    /\ NoCrash
    /\ worker' = [worker EXCEPT ![r] =
                     IF ok(c) THEN c.w ELSE [worker[r] EXCEPT !.failed = c.w.failed]]
    /\ chan' = IF ok(c) THEN FlushChan(ch, r, c.out) ELSE ch
    /\ \A d \in Nodes : Len(chan'[r][d]) <= MaxChan
    /\ deferred' = IF ok(c) /\ c.defer
                   THEN [def EXCEPT ![r] = @ \cup {[src |-> src, msg |-> m]}]
                   ELSE def
    /\ client' = IF ok(c)
                 THEN [j \in JobIds |->
                          [client[j] EXCEPT !.done = @ + CountSink(c.out, j, "JOB_DONE"),
                                            !.aborted = @ + CountSink(c.out, j, "ABORT")]]
                 ELSE client
    /\ lastTrans' = IF ok(c) THEN c.trans ELSE {}
    /\ UNCHANGED <<env, units>>

Alive(r) == worker[r].failed = "none"
Pop(src, dst) == [chan EXCEPT ![src][dst] = Tail(@)]
HeadIs(src, dst, tag) == chan[src][dst] # <<>> /\ Head(chan[src][dst]).tag = tag
Others(r) == Ranks \ {r}

\* --------------------------------------------------------------- actions
RecvFindNode(src, dst) ==
    /\ Alive(dst) /\ HeadIs(src, dst, "FIND_NODE")
    /\ LET m == Head(chan[src][dst])
           T == BounceTargets(dst, m.req, src)
       IN  /\ WillBounce(Ctx(dst), m.req) => m.req.numHops < env.hops
           /\ \E nextRank \in (IF T = {} THEN {NoRank} ELSE T) :
                 Complete(dst, handleFindNode(Ctx(dst), src, m.req, nextRank),
                          Pop(src, dst), deferred, src, m)

RecvRequestBecomeChild(src, dst) ==
    /\ Alive(dst) /\ HeadIs(src, dst, "REQUEST_BECOME_CHILD")
    /\ LET m == Head(chan[src][dst])
       IN  Complete(dst, handleRequestBecomeChild(Ctx(dst), src, m.req),
                    Pop(src, dst), deferred, src, m)

RecvRejectBecomeChild(src, dst) ==
    /\ Alive(dst) /\ HeadIs(src, dst, "REJECT_BECOME_CHILD")
    /\ LET m == Head(chan[src][dst])
       IN  Complete(dst, handleRejectBecomeChild(Ctx(dst), src, m.req),
                    Pop(src, dst), deferred, src, m)

RecvAcceptBecomeChild(src, dst) ==
    /\ Alive(dst) /\ HeadIs(src, dst, "ACCEPT_BECOME_CHILD")
    /\ LET m == Head(chan[src][dst])
       IN  Complete(dst, handleAcceptBecomeChild(Ctx(dst), src, m.jobId),
                    Pop(src, dst), deferred, src, m)

RecvAckAcceptBecomeChild(src, dst) ==
    /\ Alive(dst) /\ HeadIs(src, dst, "ACK_ACCEPT_BECOME_CHILD")
    /\ LET m == Head(chan[src][dst])
       IN  Complete(dst, handleAckAcceptBecomeChild(Ctx(dst), src, m.req),
                    Pop(src, dst), deferred, src, m)

RecvSendJob(src, dst) ==
    /\ Alive(dst) /\ HeadIs(src, dst, "SEND_JOB_DESCRIPTION")
    /\ LET m == Head(chan[src][dst])
       IN  \E nl \in Others(dst), nr \in Others(dst) :
              Complete(dst, handleSendJob(Ctx(dst), src, m.jobId, m.val, nl, nr),
                       Pop(src, dst), deferred, src, m)

RecvQueryVolume(src, dst) ==
    /\ Alive(dst) /\ HeadIs(src, dst, "QUERY_VOLUME")
    /\ LET m == Head(chan[src][dst])
       IN  Complete(dst, handleQueryVolume(Ctx(dst), src, m.jobId),
                    Pop(src, dst), deferred, src, m)

RecvUpdateVolume(src, dst) ==
    /\ Alive(dst) /\ HeadIs(src, dst, "UPDATE_VOLUME")
    /\ LET m == Head(chan[src][dst])
       IN  \E nl \in Others(dst), nr \in Others(dst) :
              Complete(dst, handleUpdateVolume(Ctx(dst), m.jobId, m.val, nl, nr),
                       Pop(src, dst), deferred, src, m)

RecvWorkerDefecting(src, dst) ==
    /\ Alive(dst) /\ HeadIs(src, dst, "WORKER_DEFECTING")
    /\ LET m == Head(chan[src][dst])
       IN  \E nextNodeRank \in Others(dst) :
              Complete(dst, handleWorkerDefecting(Ctx(dst), m.jobId, m.val, nextNodeRank),
                       Pop(src, dst), deferred, src, m)

RecvTerminate(src, dst) ==
    /\ Alive(dst) /\ HeadIs(src, dst, "TERMINATE")
    /\ LET m == Head(chan[src][dst])
       IN  Complete(dst, handleTerminate(Ctx(dst), m.jobId),
                    Pop(src, dst), deferred, src, m)

RecvAbort(src, dst) ==
    /\ Alive(dst) /\ HeadIs(src, dst, "ABORT")
    /\ LET m == Head(chan[src][dst])
       IN  Complete(dst, handleAbort(Ctx(dst), m.jobId),
                    Pop(src, dst), deferred, src, m)

RecvWorkerFoundResult(src, dst) ==
    /\ Alive(dst) /\ HeadIs(src, dst, "WORKER_FOUND_RESULT")
    /\ LET m == Head(chan[src][dst])
       IN  Complete(dst, handleWorkerFoundResult(Ctx(dst), src, m.jobId),
                    Pop(src, dst), deferred, src, m)

RecvForwardClientRank(src, dst) ==
    /\ Alive(dst) /\ HeadIs(src, dst, "FORWARD_CLIENT_RANK")
    /\ LET m == Head(chan[src][dst])
       IN  Complete(dst, handleForwardClientRank(Ctx(dst), m.jobId, m.val),
                    Pop(src, dst), deferred, src, m)

\* MyMpi::deferHandle: a deferred TERMINATE is handled again once the job
\* has left the COMMITTED state.
RetryDeferred(r) ==
    /\ Alive(r)
    /\ \E d \in deferred[r] :
          /\ getState(worker[r].jobs[d.msg.jobId]) # "COMMITTED"
          /\ Complete(r, handleTerminate(Ctx(r), d.msg.jobId), chan,
                      [deferred EXCEPT ![r] = @ \ {d}], d.src, d.msg)

\* Worker::mainProgram, the solve loop: the current job reports a result
\* once (ThreadedSatJob::appl_solved) to the root of its job.
SolverFoundResult(r) ==
    /\ env.results
    /\ Alive(r) /\ worker[r].currentJob # NoJob
    /\ LET j == worker[r].currentJob
           job == worker[r].jobs[j]
           c == Ctx(r)
           c1 == [c EXCEPT !.w.jobs[j].doneLocally = TRUE]
       IN  /\ getState(job) = "ACTIVE" /\ ~job.doneLocally
           /\ Complete(r, isend(c1, getRootNodeRank(c, j),
                                Msg("WORKER_FOUND_RESULT", j, NoReq, 0)),
                       chan, deferred, r, NoMsg)

\* Worker::mainProgram with Worker::checkComputationLimits: the root of the
\* current job finds a limit exceeded and aborts the job.
TimeoutJob(r) ==
    /\ env.limits
    /\ Alive(r) /\ worker[r].currentJob # NoJob
    /\ isRoot(worker[r].jobs[worker[r].currentJob])
    /\ Complete(r, timeoutJob(Ctx(r), worker[r].currentJob), chan, deferred, r,
                Msg("ABORT", worker[r].currentJob, NoReq, 0))

\* Worker::mainProgram: balancing begins only when none is in flight.
Rebalance(r) ==
    /\ Alive(r) /\ ~isBalancing(Ctx(r)) /\ worker[r].epoch < env.epochs
    /\ Complete(r, rebalance(Ctx(r)), chan, deferred, r, NoMsg)

\* The collective of an epoch completes at r once every worker has
\* contributed to it; the result gives each balanced job a volume.
AllContributed(r) ==
    \A u \in Ranks : \/ worker[u].epoch > worker[r].epoch
                     \/ (worker[u].epoch = worker[r].epoch /\ worker[u].balancing)

FinishBalancing(r) ==
    /\ Alive(r) /\ worker[r].balancing /\ AllContributed(r)
    /\ \E volumes \in [JobIds -> 1 .. env.maxVolume], nl \in Others(r), nr \in Others(r) :
          /\ \A j \in JobIds \ worker[r].balJobs : volumes[j] = 1
          /\ Complete(r, finishBalancing(Ctx(r), volumes, nl, nr), chan, deferred, r, NoMsg)

\* ---------------------------------------------------------------- client
\* The client submits job j: a request for the root slot, sent to a worker.
\* Ranks are interchangeable, so the first job goes to rank 0.
ClientIntroduceJob(j, w) ==
    /\ NoCrash
    /\ j = 1 => w = 0
    /\ j <= env.jobs /\ \A i \in 1 .. (j - 1) : client[i].introduced
    /\ j > 1 => \A u \in Ranks : worker[u].epoch = env.epochs
    /\ ~client[j].introduced
    /\ Len(chan[Client][w]) < MaxChan
    /\ chan' = [chan EXCEPT ![Client][w] =
                   Append(@, Msg("FIND_NODE", j, JobRequest(j, NoRank, Client, 0, 0, 0), 0))]
    /\ client' = [client EXCEPT ![j].introduced = TRUE]
    /\ lastTrans' = {}
    /\ UNCHANGED <<worker, deferred, env, units>>

\* The client accepts the worker that offers to host the root.
ClientAccept(src) ==
    /\ NoCrash
    /\ HeadIs(src, Client, "REQUEST_BECOME_CHILD")
    /\ Len(chan[Client][src]) < MaxChan
    /\ LET m == Head(chan[src][Client])
       IN  chan' = [Pop(src, Client) EXCEPT ![Client][src] =
                      Append(@, Msg("ACCEPT_BECOME_CHILD", m.jobId, NoReq, 0))]
    /\ lastTrans' = {}
    /\ UNCHANGED <<worker, deferred, client, env, units>>

\* The client answers the ACK with the full description.
ClientSendDescription(src) ==
    /\ NoCrash
    /\ HeadIs(src, Client, "ACK_ACCEPT_BECOME_CHILD")
    /\ Len(chan[Client][src]) < MaxChan
    /\ LET m == Head(chan[src][Client])
       IN  chan' = [Pop(src, Client) EXCEPT ![Client][src] =
                      Append(@, Msg("SEND_JOB_DESCRIPTION", m.jobId, NoReq, 1))]
    /\ lastTrans' = {}
    /\ UNCHANGED <<worker, deferred, client, env, units>>

\* ---------------------------------------------------------------- balancer
\* The float and double values of the balancer are exact fractions here
\* (numerator over a positive denominator, in lowest terms).
RECURSIVE GCD(_, _)
GCD(a, b) == IF b = 0 THEN a ELSE GCD(b, a % b)
Abs(x) == IF x < 0 THEN 0 - x ELSE x
Frac(n, d) ==
    LET g == GCD(Abs(n), d) IN [num |-> n \div g, den |-> d \div g]
Whole(n) == Frac(n, 1)
FAdd(x, y) == Frac(x.num * y.den + y.num * x.den, x.den * y.den)
FSub(x, y) == Frac(x.num * y.den - y.num * x.den, x.den * y.den)
FMul(x, y) == Frac(x.num * y.num, x.den * y.den)
FDiv(x, y) ==
    IF y.num > 0 THEN Frac(x.num * y.den, x.den * y.num)
    ELSE Frac(0 - x.num * y.den, x.den * (0 - y.num))
FLt(x, y) == x.num * y.den < y.num * x.den
FLe(x, y) == x.num * y.den <= y.num * x.den
FMin(x, y) == IF FLt(y, x) THEN y ELSE x
FMax(x, y) == IF FLt(x, y) THEN y ELSE x
FFloor(x) == x.num \div x.den                       \* std::floor
FCeil(x) == 0 - ((0 - x.num) \div x.den)            \* std::ceil
FTrunc(x) == IF x.num >= 0 THEN x.num \div x.den    \* (int) x
             ELSE 0 - ((0 - x.num) \div x.den)
FAbs(x) == [x EXCEPT !.num = Abs(x.num)]
TruncDiv2(n) == IF n >= 0 THEN n \div 2 ELSE 0 - ((0 - n) \div 2)

\* Sum of f[x] over the finite set S (fractions).
RECURSIVE FSum(_, _)
FSum(f, S) ==
    IF S = {} THEN Whole(0)
    ELSE LET x == CHOOSE y \in S : TRUE IN FAdd(f[x], FSum(f, S \ {x}))

\* Sum of f[x] over the finite set S (integers).
RECURSIVE ISum(_, _)
ISum(f, S) ==
    IF S = {} THEN 0
    ELSE LET x == CHOOSE y \in S : TRUE IN f[x] + ISum(f, S \ {x})

\* The fractions of S in ascending order, each once
\* (SortedDoubleSequence after its all-reduction).
RECURSIVE Ascending(_)
Ascending(S) ==
    IF S = {} THEN <<>>
    ELSE LET m == CHOOSE x \in S : \A y \in S : FLe(x, y)
         IN  <<m>> \o Ascending(S \ {m})

\* The fractions of S in descending order, each once
\* (ResourcesInfo::priorities after its all-reduction).
RECURSIVE Descending(_)
Descending(S) ==
    IF S = {} THEN <<>>
    ELSE LET m == CHOOSE x \in S : \A y \in S : FLe(y, x)
         IN  <<m>> \o Descending(S \ {m})

\* A balancer before its first epoch.
NoBalancer ==
    [stage |-> "NONE", balancing |-> FALSE, failed |-> "none",
     size |-> 0, loadFactor |-> Whole(1), implicitJobs |-> 0,
     jobs |-> {}, priorities |-> <<>>, demands |-> <<>>,
     aggregatedDemand |-> Whole(0), numJobs |-> 0,
     totalAvailVolume |-> Whole(0), assignments |-> <<>>,
     assignedResources |-> Whole(0), histPriorities |-> <<>>,
     demandedResources |-> <<>>,
     remainders |-> <<>>, lower |-> 0, upper |-> 0,
     lastUtilization |-> 0, bestRemainderIdx |-> 0 - 1,
     bestUtilizationDiff |-> Whole(0), bestUtilization |-> 0,
     roundingIterations |-> 0,
     roundedAssignments |-> <<>>, reduceResult |-> 0, volumes |-> <<>>,
     epochs |-> 0]

\* CutoffPriorityBalancer::beginBalancing with the all-reduction it starts:
\* every worker contributes the demand of the job it is the root of; jobs
\* is the set of participating jobs of the fleet, implicitJobs the number of
\* active roots that cannot take part yet.
beginBalancing(b, priorities, demands, implicitJobs) ==
    LET jobs == DOMAIN demands IN
    [b EXCEPT !.stage = "INITIAL_DEMAND", !.balancing = TRUE,
              !.implicitJobs = implicitJobs,
              !.jobs = jobs, !.priorities = priorities, !.demands = demands,
              !.assignments = <<>>,
              !.aggregatedDemand =
                  FSum([j \in jobs |-> FMul(Whole(demands[j] - 1), priorities[j])], jobs),
              !.numJobs = Cardinality(jobs) + implicitJobs]

\* min(1.0f, initialMetRatio): a division by an aggregated demand of zero
\* gives +infinity or NaN for a volume that is not negative, and
\* std::min(1.0f, x) is then 1.0f.
metRatio(b, j) ==
    IF b.aggregatedDemand.num = 0 THEN Whole(1)
    ELSE FMin(Whole(1), FDiv(FMul(b.totalAvailVolume, b.priorities[j]),
                             b.aggregatedDemand))

\* CutoffPriorityBalancer::continueBalancing(), stage INITIAL_DEMAND, with
\* the reduction and broadcast of the ResourcesInfo it starts: the histogram
\* holds, per priority, the demand that the initial assignments leave unmet.
continueBalancing(b) ==
    LET avail == FSub(FMul(Whole(b.size), b.loadFactor), Whole(b.numJobs))
        b1 == [b EXCEPT !.totalAvailVolume = avail]
        assignments ==
            [j \in b.jobs |->
                FAdd(Whole(1), FMul(metRatio(b1, j), Whole(b.demands[j] - 1)))]
        prios == Descending({b.priorities[j] : j \in b.jobs})
        unmet == [j \in b.jobs |-> FSub(Whole(b.demands[j]), assignments[j])]
    IN  [b1 EXCEPT !.stage = "BROADCAST_RESOURCES",
                   !.assignments = assignments,
                   !.assignedResources =
                       FSum([j \in b.jobs |-> FSub(assignments[j], Whole(1))], b.jobs),
                   !.histPriorities = prios,
                   !.demandedResources =
                       [k \in 1 .. Len(prios) |->
                           FSum(unmet, {j \in b.jobs : b.priorities[j] = prios[k]})]]

\* CutoffPriorityBalancer::finishResourcesReduction, the adjustment of one
\* job: the three cases of the code, with its assertions.
adjustedAssignment(b, j, remainingResources) ==
    LET demand == Whole(b.demands[j])
        k == CHOOSE i \in 1 .. Len(b.histPriorities) :
                 b.histPriorities[i] = b.priorities[j]
        a == b.assignments[j]
        span == FSub(b.demandedResources[k], b.demandedResources[k - 1])
        ratio == FDiv(FSub(remainingResources, b.demandedResources[k - 1]), span)
    IN  IF b.demands[j] = 1 THEN [val |-> a, failed |-> "none"]
        ELSE IF a = demand \/ FLe(b.histPriorities[k], remainingResources)
             THEN [val |-> demand, failed |-> "none"]
        ELSE IF k = 1 \/ FLe(remainingResources, b.demandedResources[k - 1])
             THEN [val |-> a, failed |-> "none"]
        ELSE IF span.num = 0 \/ ~FLt(Whole(0), ratio) \/ ~FLe(ratio, Whole(1))
             THEN [val |-> a, failed |-> "assert:ratio"]
        ELSE [val |-> FAdd(a, FMul(ratio, FSub(demand, a))), failed |-> "none"]

\* The fractional part that the code takes of an assignment.
remainderOf(x) == FSub(x, Whole(FTrunc(x)))

\* CutoffPriorityBalancer::finishResourcesReduction under bisection rounding,
\* with the reduction and broadcast of the remainders it starts.
finishResourcesReduction(b) ==
    LET rest == FSub(b.totalAvailVolume, b.assignedResources)
        remainingResources == IF FLt(rest, Frac(1, 10)) THEN Whole(0) ELSE rest
        adj == [j \in b.jobs |-> adjustedAssignment(b, j, remainingResources)]
        assignments == [j \in b.jobs |-> adj[j].val]
        rems == {remainderOf(assignments[j]) : j \in b.jobs}
    IN  IF \E j \in b.jobs : adj[j].failed # "none"
        THEN [b EXCEPT !.failed = "assert:ratio"]
        ELSE [b EXCEPT !.stage = "BROADCAST_REMAINDERS",
                       !.assignments = assignments,
                       !.remainders =
                           Ascending({r \in rems : FLt(Whole(0), r) /\ FLt(r, Whole(1))}),
                       !.lastUtilization = 0,
                       !.bestRemainderIdx = 0 - 1]

\* CutoffPriorityBalancer::getRoundedAssignments
getRoundedAssignments(b, remainderIdx) ==
    LET remainder == IF remainderIdx < Len(b.remainders)
                     THEN b.remainders[remainderIdx + 1] ELSE Whole(1)
    IN  [j \in b.jobs |->
            IF FLt(remainderOf(b.assignments[j]), remainder)
            THEN FFloor(b.assignments[j]) ELSE FCeil(b.assignments[j])]

\* CutoffPriorityBalancer::continueRoundingUntilReduction with its
\* all-reduction of the local sums.
continueRoundingUntilReduction(b, lower, upper) ==
    LET idx == TruncDiv2(lower + upper)
        rounded == getRoundedAssignments(b, idx)
    IN  IF idx <= Len(b.remainders)
        THEN [b EXCEPT !.lower = lower, !.upper = upper,
                       !.roundedAssignments = rounded,
                       !.reduceResult = ISum(rounded, b.jobs)]
        ELSE [b EXCEPT !.lower = lower, !.upper = upper, !.reduceResult = 0]

\* CutoffPriorityBalancer::finishRemaindersReduction
finishRemaindersReduction(b) ==
    [continueRoundingUntilReduction(b, 0, Len(b.remainders))
        EXCEPT !.stage = "GLOBAL_ROUNDING"]

\* A balancer that keeps the result of its first rounding iteration.
isFirstResult(b, diffToOptimum) == b.bestRemainderIdx = 0 - 1

\* The test of continueRoundingFromReduction that makes the result of this
\* iteration the best one so far.
isBestSoFar(b, diffToOptimum) ==
    \/ b.bestRemainderIdx = 0 - 1
    \/ (FLt(Whole(0 - 1), diffToOptimum) /\ FLe(b.bestUtilizationDiff, Whole(0 - 1)))
    \/ (FLe(diffToOptimum, Whole(0 - 1)) /\ FLe(b.bestUtilizationDiff, Whole(0 - 1))
        /\ FLt(b.bestUtilizationDiff, diffToOptimum))
    \/ (FLt(Whole(0 - 1), diffToOptimum)
        /\ FLt(FAbs(diffToOptimum), FAbs(b.bestUtilizationDiff)))

\* CutoffPriorityBalancer::continueRoundingFromReduction; the stage "DONE"
\* stands for its return value true.
continueRoundingFromReduction(b) ==
    LET utilization == b.reduceResult
        optimum == FMul(Whole(b.size), b.loadFactor)
        diffToOptimum == FSub(optimum, Whole(utilization))
        idx == TruncDiv2(b.lower + b.upper)
        b1 == IF isBestSoFar(b, diffToOptimum)
              THEN [b EXCEPT !.bestUtilizationDiff = diffToOptimum,
                             !.bestRemainderIdx = idx,
                             !.bestUtilization = utilization,
                             !.roundingIterations = @ + 1]
              ELSE [b EXCEPT !.roundingIterations = @ + 1]
        best == getRoundedAssignments(b1, b1.bestRemainderIdx)
        applied == IF b1.remainders # <<>> /\ b1.bestRemainderIdx <= Len(b1.remainders)
                   THEN [b1 EXCEPT !.roundedAssignments = best,
                                   !.assignments = [j \in b.jobs |-> Whole(best[j])]]
                   ELSE b1
        narrow == b1.lower < b1.upper
        upper == IF narrow /\ FLt(Whole(utilization), optimum) THEN idx - 1 ELSE b1.upper
        lower == IF narrow /\ FLt(optimum, Whole(utilization)) THEN idx + 1 ELSE b1.lower
    IN  IF utilization = b.lastUtilization
        THEN [applied EXCEPT !.stage = "DONE", !.bestRemainderIdx = 0 - 1,
                             !.roundingIterations = 0]
        ELSE continueRoundingUntilReduction(
                 [b1 EXCEPT !.lastUtilization = utilization], lower, upper)

\* Random::roundProbabilistically: a whole number is returned as it is, any
\* other number is rounded down or up.
roundProbabilistically(x) ==
    IF x.den = 1 THEN {x.num} ELSE {FFloor(x), FFloor(x) + 1}

\* CutoffPriorityBalancer::getBalancingResult: the volumes it may publish.
getBalancingResult(b) ==
    { [b EXCEPT !.stage = "NONE", !.balancing = FALSE, !.volumes = v,
                !.epochs = @ + 1] :
        v \in { f \in [b.jobs -> 1 .. b.size] :
                  \A j \in b.jobs :
                      f[j] \in roundProbabilistically(FMax(Whole(1), b.assignments[j])) } }

\* --------------------------------------------------------------- EventMap
\* An EventMap is the sequence of its entries in the order of std::map,
\* ascending by job id; an Event is [jobId, epoch, demand, priority].
Event(jobId, epoch, demand, priority) ==
    [jobId |-> jobId, epoch |-> epoch, demand |-> demand, priority |-> priority]

\* An event that takes itself for the newer one whatever the epochs are.
dominatesAlways(ev, other) == TRUE

\* Event::dominates
dominates(ev, other) == ev.epoch > other.epoch

\* std::map: count, at, operator[]=.
count(map, jobId) == Cardinality({i \in 1 .. Len(map) : map[i].jobId = jobId})
at(map, jobId) == map[CHOOSE i \in 1 .. Len(map) : map[i].jobId = jobId]
put(map, ev) ==
    LET before == SelectSeq(map, LAMBDA x : x.jobId < ev.jobId)
        after == SelectSeq(map, LAMBDA x : x.jobId > ev.jobId)
    IN  before \o <<ev>> \o after

\* EventMap::merge: both maps are walked at once, from entry i of map and
\* entry k of other on.
RECURSIVE mergeFrom(_, _, _, _)
mergeFrom(map, other, i, k) ==
    IF i <= Len(map) /\ k <= Len(other)
    THEN IF map[i].jobId = other[k].jobId
         THEN <<IF dominates(map[i], other[k]) THEN map[i] ELSE other[k]>>
              \o mergeFrom(map, other, i + 1, k + 1)
         ELSE IF map[i].jobId < other[k].jobId
              THEN <<map[i]>> \o mergeFrom(map, other, i + 1, k)
              ELSE <<other[k]>> \o mergeFrom(map, other, i, k + 1)
    ELSE IF i <= Len(map) THEN <<map[i]>> \o mergeFrom(map, other, i + 1, k)
    ELSE IF k <= Len(other) THEN <<other[k]>> \o mergeFrom(map, other, i, k + 1)
    ELSE <<>>

\* A merge that takes over the other map.
mergeForgetting(map, other) == other

merge(map, other) == mergeFrom(map, other, 1, 1)

\* EventMap::filterBy: the entries of map that otherMap does not cover by an
\* event of the same or a later epoch; failed when two events of one job
\* and epoch differ in demand or priority (the assertions of the loop).
filterBy(map, otherMap) ==
    LET covered(ev) == /\ count(otherMap, ev.jobId) > 0
                       /\ at(otherMap, ev.jobId).epoch >= ev.epoch
        differs(ev) == /\ count(otherMap, ev.jobId) > 0
                       /\ at(otherMap, ev.jobId).epoch = ev.epoch
                       /\ \/ at(otherMap, ev.jobId).priority # ev.priority
                          \/ at(otherMap, ev.jobId).demand # ev.demand
    IN  [map |-> SelectSeq(map, LAMBDA ev : ~covered(ev)),
         failed |-> \E i \in 1 .. Len(map) : differs(map[i])]

\* EventMap::insertIfNovel, the condition on an event of a known job.
isNovelChange(ev, known) ==
    dominates(ev, known)
        /\ (ev.demand # known.demand \/ ev.priority # known.priority)

\* EventMap::insertIfNovel: the map after the call.
insertIfNovel(map, ev) ==
    IF ev.epoch < 0 THEN map
    ELSE IF count(map, ev.jobId) = 0 \/ isNovelChange(ev, at(map, ev.jobId))
         THEN put(map, ev)
    ELSE map

\* EventMap::updateBy: the map after the call.
RECURSIVE updateFrom(_, _, _)
updateFrom(map, otherMap, i) ==
    IF i > Len(otherMap) THEN map
    ELSE updateFrom(insertIfNovel(map, otherMap[i]), otherMap, i + 1)

updateBy(map, otherMap) == updateFrom(map, otherMap, 1)

\* No event-driven balancing.
NoEventMaps ==
    [broadcasts |-> <<>>, states |-> <<>>, seen |-> <<>>,
     reduction |-> <<>>, reduced |-> {}]

\* ------------------------------------------------------------ Job::getDemand
\* int is 32 bits wide.
IntMax == 2147483647
IntMin == 0 - IntMax - 1
IntBits == 32

\* std::min on int.
IMin(x, y) == IF y < x THEN y ELSE x

\* x - 1 on int; INT_MIN - 1 overflows and wraps round.
minusOne(x) == IF x = IntMin THEN IntMax ELSE x - 1

\* 1 << n on int, the values a build can produce. A count of IntBits or more
\* is undefined: the processor either takes the count modulo IntBits or
\* shifts the bit out.
shiftLeftOne(n) ==
    IF n < IntBits - 1 THEN {2 ^ n}
    ELSE IF n = IntBits - 1 THEN {IntMin}
    ELSE {2 ^ (n % IntBits), 0}

\* Job::getDemand in discrete mode (_continuous_growth unset): the values the
\* call can return for a job record j, the volume before, and the time now.
\* Times are whole seconds.
getDemand(j, prevVolume, elapsedTime) ==
    IF j.state = "ACTIVE"
    THEN LET grown ==
                 IF j.growthPeriod <= 0 THEN {j.commSize}
                 ELSE IF j.timeOfActivation <= 0 THEN {1}
                 ELSE LET t == elapsedTime - j.timeOfActivation
                          numPeriods == FFloor(Frac(t, j.growthPeriod))
                      IN  { IMin(j.commSize, minusOne(p)) :
                              p \in shiftLeftOne(numPeriods + 1) }
         IN  { IF j.maxDemand > 0 THEN IMin(demand, j.maxDemand) ELSE demand :
                 demand \in grown }
    ELSE {prevVolume}

\* No job whose demand is followed.
NoDemandJob ==
    [state |-> "NONE", commSize |-> 0, growthPeriod |-> 0,
     timeOfActivation |-> 0, maxDemand |-> 0, now |-> 0, volume |-> 0,
     asked |-> FALSE, askedAt |-> 0, demand |-> 0,
     askedBefore |-> FALSE, demandBefore |-> 0]

\* --------------------------------------------------- SatClauseCommunicator
\* A clause buffer, and the payload of a JobMessage, is a sequence of ints.
\* The context c of the operators is the communicator with what it reads of
\* its job (state, position in the job tree, solver) and what it has sent.
NoClauseComm ==
    [state |-> "NONE", isRoot |-> FALSE, hasLeftChild |-> FALSE,
     hasRightChild |-> FALSE, fullyInitialized |-> FALSE,
     lastSharedJobComm |-> 0, numClauseSources |-> 0, clauseBuffers |-> <<>>,
     jobCommEpochOfClauseBuffer |-> 0, digested |-> <<>>,
     toParent |-> <<>>, toChildren |-> <<>>, failed |-> FALSE,
     maxSize |-> 0, mergeLimit |-> 0, shared |-> <<>>, hasShared |-> FALSE,
     handled |-> [tag |-> "NONE", epoch |-> 0, payload |-> <<>>,
                  lastSharedJobComm |-> 0],
     calls |-> 0]

JobMessage(tag, epoch, payload) ==
    [tag |-> tag, epoch |-> epoch, payload |-> payload]

\* HordeLib::prepareSharing: the clauses the solvers export.
OwnClauses == <<8>>

\* The test of a gather message against a later epoch only.
sharedLater(c, epoch) == c.lastSharedJobComm > epoch

\* continueCommunication: "already shared clauses upwards this job comm epoch"
alreadyShared(c, epoch) == c.lastSharedJobComm >= epoch

\* SatClauseCommunicator::learnClausesFromAbove
learnClausesFromAbove(c, clauses) ==
    IF c.state # "ACTIVE" \/ ~c.fullyInitialized THEN c
    ELSE [c EXCEPT !.digested = Append(@, clauses)]

\* SatClauseCommunicator::learnAndDistributeClausesDownwards
learnAndDistributeClausesDownwards(c, clauses, jobCommEpoch) ==
    LET msg == JobMessage("DISTRIBUTE_CLAUSES", jobCommEpoch, clauses)
        left == IF c.hasLeftChild THEN <<[to |-> "left", msg |-> msg]>> ELSE <<>>
        right == IF c.hasRightChild THEN <<[to |-> "right", msg |-> msg]>> ELSE <<>>
        sent == [c EXCEPT !.toChildren = @ \o left \o right]
    IN  IF Len(clauses) > 0 THEN learnClausesFromAbove(sent, clauses) ELSE sent

\* SatClauseCommunicator::collectClausesFromSolvers
collectClausesFromSolvers(c) ==
    IF c.state # "ACTIVE" \/ ~c.fullyInitialized THEN <<>> ELSE OwnClauses

\* SatClauseCommunicator::insertIntoClauseBuffer
insertIntoClauseBuffer(c, vec, jobCommEpoch) ==
    LET reset == IF c.clauseBuffers # <<>>
                    /\ c.jobCommEpochOfClauseBuffer # jobCommEpoch
                 THEN [c EXCEPT !.numClauseSources = 0, !.clauseBuffers = <<>>]
                 ELSE c
    IN  [reset EXCEPT !.jobCommEpochOfClauseBuffer = jobCommEpoch,
                      !.clauseBuffers = Append(@, vec)]

\* SatClauseCommunicator::collectClausesFromBelow
collectClausesFromBelow(c, clauses, jobCommEpoch) ==
    [insertIntoClauseBuffer(c, clauses, jobCommEpoch) EXCEPT
        !.numClauseSources = @ + 1]

\* SatClauseCommunicator::canShareCollectedClauses
canShareCollectedClauses(c) ==
    (IF c.hasLeftChild THEN 1 ELSE 0) + (IF c.hasRightChild THEN 1 ELSE 0)
        = c.numClauseSources

\* SatClauseCommunicator::merge for buffers of clauses of one literal: the
\* number of VIP clauses first, then what the buffers hold, and no more
\* than maxSize ints.
RECURSIVE concat(_)
concat(buffers) ==
    IF buffers = <<>> THEN <<>> ELSE Head(buffers) \o concat(Tail(buffers))

mergeBuffers(buffers, maxSize) ==
    LET all == <<0>> \o concat(buffers)
    IN  SubSeq(all, 1, IMin(Len(all), maxSize))

\* The clause exchange of this model: initial size and multiplier.
CLAUSE_EXCHANGE_INITIAL_SIZE == 4
CLAUSE_EXCHANGE_MULTIPLIER == 2

\* (int) (CLAUSE_EXCHANGE_INITIAL_SIZE * std::pow(CLAUSE_EXCHANGE_MULTIPLIER,
\* passedLayers)), for the layers of this model (0 .. 8).
RECURSIVE sizeAfterLayers(_)
sizeAfterLayers(passedLayers) ==
    IF passedLayers <= 0 THEN CLAUSE_EXCHANGE_INITIAL_SIZE
    ELSE CLAUSE_EXCHANGE_MULTIPLIER * sizeAfterLayers(passedLayers - 1)

\* SatClauseCommunicator::shareCollectedClauses: the communicator after the
\* call and the buffer returned.
shareCollectedClauses(c, jobCommEpoch, passedLayers) ==
    LET maxSize == sizeAfterLayers(passedLayers)
        own == insertIntoClauseBuffer(c, collectClausesFromSolvers(c), jobCommEpoch)
        vec == mergeBuffers(own.clauseBuffers, maxSize * CLAUSE_EXCHANGE_MULTIPLIER)
    IN  [c |-> [own EXCEPT !.numClauseSources = 0, !.clauseBuffers = <<>>,
                           !.maxSize = maxSize,
                           !.mergeLimit = maxSize * CLAUSE_EXCHANGE_MULTIPLIER,
                           !.shared = vec, !.hasShared = TRUE],
         vec |-> vec]

\* SatClauseCommunicator::continueCommunication. back() of an empty payload
\* is undefined: the communicator is marked failed and followed no further.
continueCommunication(c, msg) ==
    IF c.state # "ACTIVE" THEN c
    ELSE IF msg.payload = <<>> THEN [c EXCEPT !.failed = TRUE]
    ELSE
    LET epoch == msg.epoch
        passedLayers == msg.payload[Len(msg.payload)]
        clauses == SubSeq(msg.payload, 1, Len(msg.payload) - 1)
    IN  IF msg.tag = "GATHER_CLAUSES"
        THEN IF alreadyShared(c, epoch)
             THEN learnAndDistributeClausesDownwards(c, clauses, epoch)
             ELSE LET collected == collectClausesFromBelow(c, clauses, epoch)
                  IN  IF canShareCollectedClauses(collected)
                      THEN LET shared == shareCollectedClauses(collected, epoch, passedLayers)
                               passed ==
                                   IF c.isRoot
                                   THEN learnAndDistributeClausesDownwards(
                                            shared.c, shared.vec, epoch)
                                   ELSE [shared.c EXCEPT !.toParent =
                                            Append(@, JobMessage("GATHER_CLAUSES",
                                                                 epoch, shared.vec))]
                           IN  [passed EXCEPT !.lastSharedJobComm = epoch]
                      ELSE collected
        ELSE learnAndDistributeClausesDownwards(c, clauses, epoch)

\* SatClauseCommunicator::initiateCommunication
initiateCommunication(c, jobCommEpoch) ==
    IF c.isRoot
    THEN [(IF c.state = "ACTIVE"
           THEN learnClausesFromAbove(c, collectClausesFromSolvers(c))
           ELSE c) EXCEPT !.lastSharedJobComm = jobCommEpoch]
    ELSE [c EXCEPT !.toParent =
             Append(@, JobMessage("GATHER_CLAUSES", jobCommEpoch,
                                  Append(collectClausesFromSolvers(c), 0)))]

\* ------------------------------------------------------------ specification
\* Worker::Worker: no job known, load 0, no current job.
NewWorker ==
    [jobs |-> [j \in JobIds |-> UnknownJob],
     jobCommitments |-> [j \in JobIds |-> NoReq],
     load |-> 0, currentJob |-> NoJob,
     volumes |-> [j \in JobIds |-> NoRank],
     epoch |-> 0, balancing |-> FALSE, balJobs |-> {},
     failed |-> "none"]

\* What the environment does in a run: how many jobs the client submits,
\* how many balancing epochs happen and which volumes they assign, whether
\* solvers report results and whether computation limits are configured,
\* and for how many hops a request is followed.
Scenario(jobs, epochs, maxVolume, results, limits) ==
    [jobs |-> jobs, epochs |-> epochs, maxVolume |-> maxVolume,
     results |-> results, limits |-> limits, hops |-> MaxHops]

\* One job that grows, shrinks and grows again; one job on the whole fleet
\* that ends by a result; one that ends by a limit; one job that shrinks and
\* then ends; several jobs without balancing; a late job that finds the
\* fleet busy.
Scenarios ==
    { Scenario(1, MaxEpoch, 2, FALSE, FALSE),
      Scenario(1, 1, commSize, TRUE, FALSE),
      Scenario(1, 1, commSize, FALSE, TRUE),
      Scenario(1, 2, 2, FALSE, TRUE),
      Scenario(NumJobs, 0, 1, TRUE, TRUE),
      Scenario(NumJobs, 1, commSize, FALSE, FALSE) }

\* ------------------------------------------------ Reduceable collectives
\* The butterfly reduction and broadcast of reduceable.cpp, driven by the
\* stages of CutoffPriorityBalancer::continueBalancing(handle).  The data of
\* a Reduceable is the set of the ranks whose contributions it merges: the
\* contribution of rank r is {r}, or {} when r has nothing to contribute.

NoHandle == [source |-> NoRank, data |-> {}, stage |-> "NONE", epoch |-> 0]

NoReduceable ==
    [myRank |-> NoRank, excludedRanks |-> {}, power |-> 0,
     highestPower |-> 0, data |-> {}]

\* The balancer of one worker: its stage, its two Reduceables, the source
\* of the receive it has posted, the messages its last step has sent, and
\* what has happened in the epoch (entered, consumed, reduced).
NewCollBalancer(r) ==
    [rank |-> r, epoch |-> 0, stage |-> "NONE", balancing |-> FALSE,
     resourcesInfo |-> NoReduceable, remainders |-> NoReduceable,
     irecv |-> NoRank, sent |-> <<>>,
     entered |-> <<>>, consumed |-> {}, built |-> {},
     reduced |-> [resourcesInfo |-> <<>>, remainders |-> <<>>],
     finished |-> {}]

NoCollective ==
    [size |-> 0, rounding |-> "NONE", localJobs |-> {}, fractional |-> {},
     balancers |-> <<>>, msgs |-> <<>>]

RECURSIVE ceilLog2(_)
ceilLog2(n) == IF n <= 1 THEN 0 ELSE 1 + ceilLog2((n + 1) \div 2)

RECURSIVE pow2(_)
pow2(k) == IF k = 0 THEN 1 ELSE 2 * pow2(k - 1)

\* _highest_power = 2 << (int)ceil(log2(size))
highestPower(size) == 2 * pow2(ceilLog2(size))

\* A Reduceable that never counts as empty.
neverEmpty(x) == FALSE

\* Reduceable::isEmpty
isEmpty(x) == x.data = {}
\* A merge that drops what was received.
mergeNothing(x, received) == x.data

\* Reduceable::merge
mergeData(x, received) == x.data \cup received

enterStage(b, stage) ==
    [b EXCEPT !.stage = stage, !.entered = Append(@, stage)]

\* MyMpi::isend(comm, dest, MSG_COLLECTIVE_OPERATION, *this)
isendThis(b, dest, f) ==
    [b EXCEPT !.sent = Append(@, [dest |-> dest, source |-> b.rank,
                                  data |-> b[f].data, stage |-> b.stage,
                                  epoch |-> b.epoch])]

\* MyMpi::irecv(comm, source, MSG_COLLECTIVE_OPERATION)
irecv(b, source) == [b EXCEPT !.irecv = source]

\* The loop over _power of startReduction and advanceReduction, from the
\* current _power upwards.
RECURSIVE reductionLoop(_, _, _)
reductionLoop(b, f, size) ==
    LET x == b[f]
        p == x.power
        me == x.myRank
        next == [b EXCEPT ![f].power = 2 * p]
    IN  IF p > x.highestPower
        THEN [b |-> IF isEmpty(x)
                    THEN [b EXCEPT ![f].excludedRanks = @ \cup {me}]
                    ELSE b,
              done |-> TRUE]
        ELSE IF me % p = 0 /\ me + p \div 2 < size
        THEN IF (me + p \div 2) \in x.excludedRanks
             THEN reductionLoop(next, f, size)
             ELSE [b |-> irecv(b, me + p \div 2), done |-> FALSE]
        ELSE IF me % p = p \div 2
        THEN IF (me - p \div 2) \in x.excludedRanks
             THEN reductionLoop(next, f, size)
             ELSE reductionLoop(isendThis(next, me - p \div 2, f), f, size)
        ELSE reductionLoop(next, f, size)

startReduction(b, f, size, excludedRanks) ==
    LET b1 == [b EXCEPT ![f].excludedRanks = excludedRanks,
                        ![f].myRank = b.rank]
    IN  IF b.rank \in excludedRanks
        THEN [b |-> b1, done |-> TRUE]
        ELSE reductionLoop([b1 EXCEPT ![f].highestPower = highestPower(size),
                                      ![f].power = 2], f, size)

advanceReduction(b, f, size, handle) ==
    reductionLoop([b EXCEPT ![f].excludedRanks =
                                IF handle.data = {} THEN @ \cup {handle.source}
                                                    ELSE @,
                            ![f].data = mergeData(b[f], handle.data),
                            ![f].power = 2 * @], f, size)

\* The loop over _power of startBroadcast and advanceBroadcast, from the
\* current _power downwards.
RECURSIVE broadcastLoop(_, _, _)
broadcastLoop(b, f, size) ==
    LET x == b[f]
        p == x.power
        me == x.myRank
        next == [b EXCEPT ![f].power = p \div 2]
    IN  IF p < 2
        THEN [b |-> b, done |-> TRUE]
        ELSE IF me % p = 0 /\ me + p \div 2 < size
        THEN IF (me + p \div 2) \in x.excludedRanks
             THEN broadcastLoop(next, f, size)
             ELSE broadcastLoop(isendThis(next, me + p \div 2, f), f, size)
        ELSE IF me % p = p \div 2
        THEN [b |-> irecv(b, me - p \div 2), done |-> FALSE]
        ELSE broadcastLoop(next, f, size)

startBroadcast(b, f, size, excludedRanks) ==
    LET b1 == [b EXCEPT ![f].myRank = b.rank,
                        ![f].highestPower = highestPower(size),
                        ![f].excludedRanks = excludedRanks]
    IN  IF b.rank \in excludedRanks
        THEN [b |-> b1, done |-> TRUE]
        ELSE broadcastLoop([b1 EXCEPT ![f].power = highestPower(size)],
                           f, size)

advanceBroadcast(b, f, size, handle) ==
    broadcastLoop([b EXCEPT ![f].data = handle.data,
                            ![f].power = @ \div 2], f, size)

\* A handle advances the operation of every stage that is reached.
startsWithoutHandle(b, handle, stage) == handle = NoHandle

\* handle == NULL || stage != <the stage at hand>: the operation of a stage
\* is started, not advanced, unless the balancer was in it on entry.
startsOperation(b, handle, stage) == handle = NoHandle \/ stage # b.stage

\* A handle that is handed to advanceReduction or advanceBroadcast is the
\* input of the stage the balancer is in.
consume(b, handle) ==
    [b EXCEPT !.consumed = @ \cup {[sentIn |-> handle.stage,
                                    sentInEpoch |-> handle.epoch,
                                    usedIn |-> b.stage,
                                    built |-> b.built]}]

\* One stage of continueBalancing(handle): start the operation, or advance
\* it by the handle when the balancer was in this stage on entry.
reduceStage(b, f, size, handle, stage, excludedRanks) ==
    LET res == IF startsOperation(b, handle, stage)
               THEN startReduction(b, f, size, excludedRanks)
               ELSE advanceReduction(consume(b, handle), f, size, handle)
    IN  IF res.done
        THEN [b |-> [res.b EXCEPT !.reduced[f] = Append(@, res.b[f].data)],
              done |-> TRUE]
        ELSE res

broadcastStage(b, f, size, handle, stage) ==
    IF startsOperation(b, handle, stage)
    THEN startBroadcast(b, f, size, b[f].excludedRanks)
    ELSE advanceBroadcast(consume(b, handle), f, size, handle)

\* The remainder stages of continueBalancing(handle), and the start of the
\* rounding.
continueRemainders(b, size, handle, stage) ==
    LET red == IF b.stage = "REDUCE_REMAINDERS"
               THEN reduceStage(b, "remainders", size, handle, stage,
                                b.resourcesInfo.excludedRanks)
               ELSE [b |-> b, done |-> FALSE]
        b2 == IF red.done THEN enterStage(red.b, "BROADCAST_REMAINDERS")
                          ELSE red.b
        res == IF b2.stage = "BROADCAST_REMAINDERS"
               THEN broadcastStage(b2, "remainders", size, handle, stage)
               ELSE [b |-> b2, done |-> FALSE]
    IN  IF b2.stage = "BROADCAST_REMAINDERS" /\ res.done
        THEN [b |-> enterStage([res.b EXCEPT !.finished = @ \cup {"remainders"}],
                               "GLOBAL_ROUNDING"),
              done |-> FALSE]
        ELSE [b |-> res.b, done |-> FALSE]

\* finishResourcesReduction: an excluded worker ends its balancing when the
\* rounding is probabilistic; with bisection every worker builds its
\* remainders and goes on to reduce them.
finishResources(b, size, rounding, fractional) ==
    IF b.rank \in b.resourcesInfo.excludedRanks /\ rounding = "PROBABILISTIC"
    THEN [b |-> [b EXCEPT !.balancing = FALSE], done |-> TRUE]
    ELSE IF rounding = "BISECTION"
    THEN continueRemainders(
             enterStage([b EXCEPT !.remainders =
                                      [NoReduceable EXCEPT !.data = fractional],
                                  !.built = @ \cup {"REDUCE_REMAINDERS",
                                                    "BROADCAST_REMAINDERS"}],
                        "REDUCE_REMAINDERS"),
             size, NoHandle, "REDUCE_REMAINDERS")
    ELSE [b |-> b, done |-> TRUE]

\* CutoffPriorityBalancer::continueBalancing(handle)
continueBalancingHandle(b, size, handle, rounding, fractional) ==
    LET stage == b.stage
        b0 == IF b.stage = "INITIAL_DEMAND"
              THEN enterStage(b, "REDUCE_RESOURCES") ELSE b
        red == IF b0.stage = "REDUCE_RESOURCES"
               THEN reduceStage(b0, "resourcesInfo", size, handle, stage, {})
               ELSE [b |-> b0, done |-> FALSE]
        b2 == IF red.done THEN enterStage(red.b, "BROADCAST_RESOURCES")
                          ELSE red.b
        res == IF b2.stage = "BROADCAST_RESOURCES"
               THEN broadcastStage(b2, "resourcesInfo", size, handle, stage)
               ELSE [b |-> b2, done |-> FALSE]
    IN  IF b2.stage = "BROADCAST_RESOURCES" /\ res.done
        THEN finishResources([res.b EXCEPT !.finished = @ \cup {"resourcesInfo"}],
                             size, rounding, fractional)
        ELSE continueRemainders(res.b, size, handle, stage)

\* ------------------------------------------- the begin of a balancing
\* CutoffPriorityBalancer::beginBalancing at one worker: which of the
\* worker's jobs take part, and what the worker contributes to the
\* all-reduction of the demands.  A fragment is the worker's Job instance of
\* a job: whether it is the root, its state, whether it has the description.
JobStates ==
    {"NONE", "STORED", "COMMITTED", "INITIALIZING_TO_COMMITTED",
     "INITIALIZING_TO_ACTIVE", "INITIALIZING_TO_SUSPENDED",
     "INITIALIZING_TO_PAST", "ACTIVE", "SUSPENDED", "STANDBY", "PAST"}

\* Job::isInitializing
isInitializing(job) ==
    job.state \in {"INITIALIZING_TO_COMMITTED", "INITIALIZING_TO_ACTIVE",
                   "INITIALIZING_TO_SUSPENDED", "INITIALIZING_TO_PAST"}

NoLocalBalancer ==
    [jobs |-> <<>>, stage |-> "NONE", balancing |-> FALSE,
     jobsBeingBalanced |-> {}, localJobs |-> {}, demands |-> <<>>,
     priorities |-> <<>>, assignments |-> {},
     contrib |-> [aggregatedDemand |-> 0, busy |-> 0, numActiveJobs |-> 0]]

\* A balancer that lets every active root take part.
participatesAsActiveRoot(job) ==
    /\ job.isRoot /\ job.state # "INITIALIZING_TO_PAST"
    /\ (job.state \in {"ACTIVE", "STANDBY"} \/ isInitializing(job))

\* bool participates: the node must be the root, and the job active, on
\* standby, or initializing to active with its description.
participates(job) ==
    /\ job.isRoot
    /\ \/ job.state \in {"ACTIVE", "STANDBY"}
       \/ job.state = "INITIALIZING_TO_ACTIVE" /\ job.hasDesc

\* bool isActiveRoot
isActiveRoot(job) ==
    /\ job.isRoot /\ job.state # "INITIALIZING_TO_PAST"
    /\ (job.state \in {"ACTIVE", "STANDBY"} \/ isInitializing(job))

RECURSIVE SumOver(_, _)
SumOver(f, S) ==
    IF S = {} THEN 0
    ELSE LET j == CHOOSE x \in S : TRUE IN f[j] + SumOver(f, S \ {j})

\* CutoffPriorityBalancer::beginBalancing, up to the start of the
\* all-reduction of <aggregated demand, busy, active jobs>.
beginLocalBalancing(b, jobs) ==
    LET taking == {j \in DOMAIN jobs : participates(jobs[j])}
        implicit == {j \in DOMAIN jobs : ~participates(jobs[j]) /\ isActiveRoot(jobs[j])}
        isWorkerBusy ==
            \E j \in DOMAIN jobs :
                jobs[j].state \in {"ACTIVE", "INITIALIZING_TO_ACTIVE"}
        demands == [j \in taking |-> jobs[j].demand]
        priorities == [j \in taking |-> jobs[j].priority]
    IN  [b EXCEPT !.jobs = jobs, !.stage = "INITIAL_DEMAND", !.balancing = TRUE,
                  !.assignments = {},
                  !.jobsBeingBalanced = taking, !.localJobs = taking,
                  !.demands = demands, !.priorities = priorities,
                  !.contrib =
                      [aggregatedDemand |->
                          SumOver([j \in taking |-> (demands[j] - 1) * priorities[j]],
                                  taking),
                       busy |-> IF isWorkerBusy THEN 1 ELSE 0,
                       numActiveJobs |-> Cardinality(taking) + Cardinality(implicit)]]

\* continueBalancing(), stage INITIAL_DEMAND: an initial assignment for
\* every local job (the values are followed in SpecBalance).
assignLocalJobs(b) ==
    [b EXCEPT !.assignments = b.localJobs, !.stage = "REDUCE_RESOURCES"]

Init ==
    /\ worker = [r \in Ranks |-> NewWorker]
    /\ chan = [s \in Nodes |-> [d \in Nodes |-> <<>>]]
    /\ deferred = [r \in Ranks |-> {}]
    /\ client = [j \in JobIds |-> [introduced |-> FALSE, done |-> 0, aborted |-> 0]]
    /\ lastTrans = {}
    /\ env \in Scenarios
    /\ balancer = NoBalancer
    /\ eventMaps = NoEventMaps
    /\ demandJob = NoDemandJob
    /\ clauseComm = NoClauseComm
    /\ collective = NoCollective
    /\ localBalancer = NoLocalBalancer

Next ==
    \/ \E j \in JobIds, w \in Ranks : ClientIntroduceJob(j, w)
    \/ \E r \in Ranks : ClientAccept(r)
    \/ \E r \in Ranks : ClientSendDescription(r)
    \/ \E s \in Nodes, d \in Ranks : RecvFindNode(s, d)
    \/ \E s \in Ranks, d \in Ranks : RecvRequestBecomeChild(s, d)
    \/ \E s \in Ranks, d \in Ranks : RecvRejectBecomeChild(s, d)
    \/ \E s \in Nodes, d \in Ranks : RecvAcceptBecomeChild(s, d)
    \/ \E s \in Ranks, d \in Ranks : RecvAckAcceptBecomeChild(s, d)
    \/ \E s \in Nodes, d \in Ranks : RecvSendJob(s, d)
    \/ \E s \in Ranks, d \in Ranks : RecvQueryVolume(s, d)
    \/ \E s \in Ranks, d \in Ranks : RecvUpdateVolume(s, d)
    \/ \E s \in Ranks, d \in Ranks : RecvWorkerDefecting(s, d)
    \/ \E s \in Ranks, d \in Ranks : RecvTerminate(s, d)
    \/ \E s \in Ranks, d \in Ranks : RecvAbort(s, d)
    \/ \E s \in Ranks, d \in Ranks : RecvWorkerFoundResult(s, d)
    \/ \E s \in Ranks, d \in Ranks : RecvForwardClientRank(s, d)
    \/ \E r \in Ranks : RetryDeferred(r)
    \/ \E r \in Ranks : SolverFoundResult(r)
    \/ \E r \in Ranks : TimeoutJob(r)
    \/ \E r \in Ranks : Rebalance(r)
    \/ \E r \in Ranks : FinishBalancing(r)

Spec == Init /\ [][Next]_vars

\* A run with a protocol violation: one ACCEPT_BECOME_CHILD that answers no
\* request is in flight from one worker to another.
StrayAccept == Msg("ACCEPT_BECOME_CHILD", 1, NoReq, 0)

\* One job that ends by a result or a limit; a late job that finds the fleet busy.
StrayScenarios ==
    { Scenario(1, 1, 2, TRUE, TRUE),
      Scenario(NumJobs, 1, commSize, FALSE, FALSE) }

InitStray ==
    /\ worker = [r \in Ranks |-> NewWorker]
    /\ chan = [s \in Nodes |-> [d \in Nodes |->
                  IF s = 1 /\ d = 2 THEN <<StrayAccept>> ELSE <<>>]]
    /\ deferred = [r \in Ranks |-> {}]
    /\ client = [j \in JobIds |-> [introduced |-> FALSE, done |-> 0, aborted |-> 0]]
    /\ lastTrans = {}
    /\ env \in StrayScenarios
    /\ balancer = NoBalancer
    /\ eventMaps = NoEventMaps
    /\ demandJob = NoDemandJob
    /\ clauseComm = NoClauseComm
    /\ collective = NoCollective
    /\ localBalancer = NoLocalBalancer

SpecStray == InitStray /\ [][Next]_vars

\* Runs in which a job ends while the fleet is busy with another: the late
\* job of the last scenario finds all workers taken by the first, whose root
\* may exceed a computation limit at any time.  The other scenarios are one
\* job that shrinks and then ends, one job that ends by a result or a limit,
\* and several jobs without balancing.
BusyScenarios ==
    { Scenario(1, 2, 2, FALSE, TRUE),
      Scenario(1, 1, 2, TRUE, TRUE),
      Scenario(NumJobs, 0, 1, TRUE, TRUE),
      Scenario(NumJobs, 1, commSize, FALSE, TRUE) }

InitBusy ==
    /\ worker = [r \in Ranks |-> NewWorker]
    /\ chan = [s \in Nodes |-> [d \in Nodes |-> <<>>]]
    /\ deferred = [r \in Ranks |-> {}]
    /\ client = [j \in JobIds |-> [introduced |-> FALSE, done |-> 0, aborted |-> 0]]
    /\ lastTrans = {}
    /\ env \in BusyScenarios
    /\ balancer = NoBalancer
    /\ eventMaps = NoEventMaps
    /\ demandJob = NoDemandJob
    /\ clauseComm = NoClauseComm
    /\ collective = NoCollective
    /\ localBalancer = NoLocalBalancer

SpecBusy == InitBusy /\ [][Next]_vars

\* The walk of one request.  With commSize = 3 a request for a child slot
\* finds no third worker to hop to, so the walk is taken up at any of its
\* hops: job 1 runs rooted at rank 0, every other worker is idle, committed
\* to, running or done with a fragment of job 1, and one FIND_NODE is in
\* flight with any hop count that the caps allow.
WalkHops == 2 * commSize + 2

CtxOf(r, w) == [self |-> r, w |-> w, out |-> <<>>, trans |-> {}, defer |-> FALSE]

\* The worker states a placement leads to: after adopting req, after the
\* description has arrived, and after a TERMINATE.
CommittedTo(r, req) == adoptRequest(CtxOf(r, NewWorker), req).w
RunningAs(r, req) ==
    handleSendJob(handleAcceptBecomeChild(CtxOf(r, CommittedTo(r, req)),
                                          req.requestingNodeRank, req.jobId),
                  req.requestingNodeRank, req.jobId, 1, NoRank, NoRank).w
DoneWith(r, req) == handleTerminate(CtxOf(r, RunningAs(r, req)), req.jobId).w

WalkWorkers(r) ==
    IF r = 0 THEN {RunningAs(0, JobRequest(1, NoRank, Client, 0, 0, 0))}
    ELSE LET req == JobRequest(1, 0, 0, r, 0, 0)
         IN  {NewWorker, CommittedTo(r, req), RunningAs(r, req), DoneWith(r, req)}

\* Requests on their walk: for a child slot of job 1, minted by its root, and
\* for the root slot of job 2, minted by the client.
WalkRequests(e) ==
    {JobRequest(1, 0, 0, i, ep, h) : i \in 1 .. 2, ep \in 0 .. e, h \in 0 .. (WalkHops - 1)}
    \cup {JobRequest(2, NoRank, Client, 0, 0, h) : h \in 0 .. (WalkHops - 1)}

WalkFleet ==
    {f \in [Ranks -> UNION {WalkWorkers(r) : r \in Ranks}] :
        \A r \in Ranks : f[r] \in WalkWorkers(r)}

InitWalk ==
    \E e \in 0 .. 1 : \E req \in WalkRequests(e) :
    \E d \in Ranks \ {req.requestingNodeRank} : \E s \in Nodes \ {d} :
        /\ s = Client => req.requestingNodeRank = Client
        /\ \E f \in WalkFleet : worker = [r \in Ranks |-> [f[r] EXCEPT !.epoch = e]]
        /\ chan = [x \in Nodes |-> [y \in Nodes |->
                      IF x = s /\ y = d THEN <<Msg("FIND_NODE", req.jobId, req, 0)>>
                      ELSE <<>>]]
        /\ deferred = [r \in Ranks |-> {}]
        /\ client = [j \in JobIds |->
                        [introduced |-> j <= req.jobId, done |-> 0, aborted |-> 0]]
        /\ lastTrans = {}
        /\ env = [Scenario(NumJobs, 0, 1, FALSE, FALSE) EXCEPT !.hops = WalkHops]
        /\ balancer = NoBalancer
        /\ eventMaps = NoEventMaps
        /\ demandJob = NoDemandJob
        /\ clauseComm = NoClauseComm
        /\ collective = NoCollective
        /\ localBalancer = NoLocalBalancer

NextWalk == \E s \in Nodes, d \in Ranks : RecvFindNode(s, d)

SpecWalk == InitWalk /\ [][NextWalk]_vars

\* ------------------------------------------------ every message delivered
\* Worker::mainProgram polls every channel in each pass of its loop:
\* the message at the head of a channel is handled by the handler of its tag.
Deliver(s, d) ==
    \/ RecvFindNode(s, d)
    \/ RecvRequestBecomeChild(s, d)
    \/ RecvRejectBecomeChild(s, d)
    \/ RecvAcceptBecomeChild(s, d)
    \/ RecvAckAcceptBecomeChild(s, d)
    \/ RecvSendJob(s, d)
    \/ RecvQueryVolume(s, d)
    \/ RecvUpdateVolume(s, d)
    \/ RecvWorkerDefecting(s, d)
    \/ RecvTerminate(s, d)
    \/ RecvAbort(s, d)
    \/ RecvWorkerFoundResult(s, d)
    \/ RecvForwardClientRank(s, d)

\* The client answers what it is sent.
ClientAnswers(r) == ClientAccept(r) \/ ClientSendDescription(r)

\* What a living worker can take up in the next pass of its loop: the head
\* of a channel, the next balancing, the end of the current one.
CanDeliver(s, d) == NoCrash /\ Alive(d) /\ chan[s][d] # <<>>
CanRebalance(r) ==
    NoCrash /\ Alive(r) /\ ~worker[r].balancing /\ worker[r].epoch < env.epochs
CanFinishBalancing(r) ==
    NoCrash /\ Alive(r) /\ worker[r].balancing /\ AllContributed(r)

\* Every sent message is eventually delivered, and the main loop keeps
\* running: nothing that a process can take up waits forever.
EveryMessageDelivered ==
    /\ \A s \in Nodes, d \in Ranks :
          []<>(~CanDeliver(s, d)) \/ []<><<Deliver(s, d)>>_vars
    /\ \A r \in Ranks : WF_vars(ClientAnswers(r))
    /\ \A r \in Ranks : WF_vars(RetryDeferred(r))
    /\ \A r \in Ranks : []<>(~CanRebalance(r)) \/ []<><<Rebalance(r)>>_vars
    /\ \A r \in Ranks :
          []<>(~CanFinishBalancing(r)) \/ []<><<FinishBalancing(r)>>_vars

\* The runs followed to their end under fairness: one job on the whole
\* fleet that ends by a limit, one job that ends by a result or a limit,
\* several jobs without balancing, a late job that finds the fleet busy.
FairScenarios ==
    { Scenario(1, 1, commSize, FALSE, TRUE),
      Scenario(1, 1, 2, TRUE, TRUE),
      Scenario(NumJobs, 0, 1, TRUE, TRUE),
      Scenario(NumJobs, 1, commSize, FALSE, FALSE) }

InitFair ==
    /\ worker = [r \in Ranks |-> NewWorker]
    /\ chan = [s \in Nodes |-> [d \in Nodes |-> <<>>]]
    /\ deferred = [r \in Ranks |-> {}]
    /\ client = [j \in JobIds |-> [introduced |-> FALSE, done |-> 0, aborted |-> 0]]
    /\ lastTrans = {}
    /\ env \in FairScenarios
    /\ balancer = NoBalancer
    /\ eventMaps = NoEventMaps
    /\ demandJob = NoDemandJob
    /\ clauseComm = NoClauseComm
    /\ collective = NoCollective
    /\ localBalancer = NoLocalBalancer

SpecFair == InitFair /\ [][Next]_vars /\ EveryMessageDelivered

\* One job on the whole fleet that ends by a result, no limit being
\* configured: no root request finds a worker to preempt, so no worker
\* defects, and nothing is aborted.
InitOneJob ==
    /\ worker = [r \in Ranks |-> NewWorker]
    /\ chan = [s \in Nodes |-> [d \in Nodes |-> <<>>]]
    /\ deferred = [r \in Ranks |-> {}]
    /\ client = [j \in JobIds |-> [introduced |-> FALSE, done |-> 0, aborted |-> 0]]
    /\ lastTrans = {}
    /\ env = Scenario(1, 1, commSize, TRUE, FALSE)
    /\ balancer = NoBalancer
    /\ eventMaps = NoEventMaps
    /\ demandJob = NoDemandJob
    /\ clauseComm = NoClauseComm
    /\ collective = NoCollective
    /\ localBalancer = NoLocalBalancer

NextOneJob ==
    \/ \E j \in JobIds, w \in Ranks : ClientIntroduceJob(j, w)
    \/ \E r \in Ranks : ClientAccept(r)
    \/ \E r \in Ranks : ClientSendDescription(r)
    \/ \E s \in Nodes, d \in Ranks : RecvFindNode(s, d)
    \/ \E s \in Ranks, d \in Ranks : RecvRequestBecomeChild(s, d)
    \/ \E s \in Ranks, d \in Ranks : RecvRejectBecomeChild(s, d)
    \/ \E s \in Nodes, d \in Ranks : RecvAcceptBecomeChild(s, d)
    \/ \E s \in Ranks, d \in Ranks : RecvAckAcceptBecomeChild(s, d)
    \/ \E s \in Nodes, d \in Ranks : RecvSendJob(s, d)
    \/ \E s \in Ranks, d \in Ranks : RecvQueryVolume(s, d)
    \/ \E s \in Ranks, d \in Ranks : RecvUpdateVolume(s, d)
    \/ \E s \in Ranks, d \in Ranks : RecvTerminate(s, d)
    \/ \E s \in Ranks, d \in Ranks : RecvWorkerFoundResult(s, d)
    \/ \E s \in Ranks, d \in Ranks : RecvForwardClientRank(s, d)
    \/ \E r \in Ranks : RetryDeferred(r)
    \/ \E r \in Ranks : SolverFoundResult(r)
    \/ \E r \in Ranks : Rebalance(r)
    \/ \E r \in Ranks : FinishBalancing(r)

\* The head of the channel from s to d has been taken: only d's poll
\* shortens that channel.
Taken(s, d) == chan[s][d] # <<>> /\ chan'[s][d] = Tail(chan[s][d])

\* Every sent message is eventually taken by its living recipient, the
\* client answers, and deferred handles are tried again.
EveryMessageTaken ==
    /\ \A s \in Nodes, d \in Ranks :
          []<>(~CanDeliver(s, d)) \/ []<><<Taken(s, d)>>_vars
    /\ \A r \in Ranks : WF_vars(ClientAnswers(r))
    /\ \A r \in Ranks : WF_vars(RetryDeferred(r))

SpecOneJobFair == InitOneJob /\ [][NextOneJob]_vars /\ EveryMessageTaken

\* ------------------------------------------------- the balancer on its own
\* One epoch of the cutoff-priority balancer with bisection rounding, each
\* step being the end of one of its collective operations.  The fleet has 5
\* or 8 workers and a load factor of 1 or 1/2; every participating job is
\* rooted at a worker of its own.
BalSizes == {5, 8}
LoadFactors == {Whole(1), Frac(1, 2)}
BalPriorities == {Whole(p) : p \in {q \in 1 .. MaxPriority : q % 2 = 1}}

IdleFleet ==
    /\ worker = [r \in Ranks |-> NewWorker]
    /\ chan = [s \in Nodes |-> [d \in Nodes |-> <<>>]]
    /\ deferred = [r \in Ranks |-> {}]
    /\ client = [j \in JobIds |-> [introduced |-> FALSE, done |-> 0, aborted |-> 0]]
    /\ lastTrans = {}
    /\ env = Scenario(0, 0, 1, FALSE, FALSE)

InitBalance ==
    /\ IdleFleet
    /\ \E size \in BalSizes, loadFactor \in LoadFactors :
          balancer = [NoBalancer EXCEPT !.size = size, !.loadFactor = loadFactor]
    /\ eventMaps = NoEventMaps
    /\ demandJob = NoDemandJob
    /\ clauseComm = NoClauseComm
    /\ collective = NoCollective
    /\ localBalancer = NoLocalBalancer

\* Worker::rebalance: the fleet has room for one node of every active job.
BeginBalancing ==
    /\ ~balancer.balancing /\ balancer.epochs < MaxBalEpochs
    /\ \E n \in 1 .. MaxBalJobs, implicitJobs \in 0 .. 1 :
       \E priorities \in [1 .. n -> BalPriorities],
          demands \in [1 .. n -> 1 .. balancer.size] :
          /\ FLe(Whole(n + implicitJobs), FMul(Whole(balancer.size), balancer.loadFactor))
          /\ balancer' = beginBalancing(balancer, priorities, demands, implicitJobs)
    /\ UNCHANGED <<fleet, eventMaps, demandJob, clauseComm, collective, localBalancer>>

ContinueBalancing ==
    /\ balancer.failed = "none" /\ balancer.stage = "INITIAL_DEMAND"
    /\ balancer' = continueBalancing(balancer)
    /\ UNCHANGED <<fleet, eventMaps, demandJob, clauseComm, collective, localBalancer>>

FinishResourcesReduction ==
    /\ balancer.failed = "none" /\ balancer.stage = "BROADCAST_RESOURCES"
    /\ balancer' = finishResourcesReduction(balancer)
    /\ UNCHANGED <<fleet, eventMaps, demandJob, clauseComm, collective, localBalancer>>

FinishRemaindersReduction ==
    /\ balancer.failed = "none" /\ balancer.stage = "BROADCAST_REMAINDERS"
    /\ balancer' = finishRemaindersReduction(balancer)
    /\ UNCHANGED <<fleet, eventMaps, demandJob, clauseComm, collective, localBalancer>>

\* Worker::mainProgram: when the balancer reports done, Worker::finishBalancing
\* takes the result at once.
ContinueRounding ==
    /\ balancer.failed = "none" /\ balancer.stage = "GLOBAL_ROUNDING"
    /\ LET b == continueRoundingFromReduction(balancer)
       IN  IF b.stage = "DONE" THEN balancer' \in getBalancingResult(b)
           ELSE balancer' = b
    /\ UNCHANGED <<fleet, eventMaps, demandJob, clauseComm, collective, localBalancer>>

NextBalance ==
    \/ BeginBalancing
    \/ ContinueBalancing
    \/ FinishResourcesReduction
    \/ FinishRemaindersReduction
    \/ ContinueRounding

SpecBalance == InitBalance /\ [][NextBalance]_vars

\* ------------------------------------------------ event maps on their own
\* The root of a job mints an event when the demand or the priority of the
\* job has changed, with the next epoch of the job: a history gives the
\* demand and priority of each epoch, and consecutive epochs differ.
EventValues ==
    { [demand |-> 1, priority |-> 1], [demand |-> 2, priority |-> 1],
      [demand |-> 1, priority |-> 2] }
EventHistories ==
    { h \in [1 .. MaxEventEpoch -> EventValues] :
        /\ h[1] = [demand |-> 1, priority |-> 1]
        /\ \A e \in 1 .. (MaxEventEpoch - 1) : h[e] # h[e + 1] }

\* The event map numbered c: the event of job 1 of epoch c \div 2 of the
\* history h, if that is an epoch, and the one event of job 2 if c is odd.
EventMapOf(h, c) ==
    (IF c \div 2 = 0 THEN <<>>
     ELSE <<Event(1, c \div 2, h[c \div 2].demand, h[c \div 2].priority)>>)
    \o (IF c % 2 = 1 THEN <<Event(2, 1, 1, 1)>> ELSE <<>>)

EventMapNumbers == 0 .. (2 * MaxEventEpoch + 1)

EventWorkers == 1 .. 2
Broadcasts == 1 .. 3

\* Three event maps are reduced and broadcast; each of two workers starts
\* with empty states and receives the three in an order of its own, so the
\* three are numbered in ascending order.
InitEvents ==
    /\ IdleFleet
    /\ balancer = NoBalancer
    /\ demandJob = NoDemandJob
    /\ clauseComm = NoClauseComm
    /\ collective = NoCollective
    /\ localBalancer = NoLocalBalancer
    /\ \E h \in EventHistories :
       \E c1 \in EventMapNumbers, c2 \in EventMapNumbers, c3 \in EventMapNumbers :
          /\ c1 <= c2 /\ c2 <= c3
          /\ eventMaps =
                [broadcasts |-> <<EventMapOf(h, c1), EventMapOf(h, c2),
                                  EventMapOf(h, c3)>>,
                 states |-> [w \in EventWorkers |-> <<>>],
                 seen |-> [w \in EventWorkers |-> {}],
                 reduction |-> <<>>, reduced |-> {}]

\* EventDrivenBalancer::digest: worker w applies broadcast i to its states.
Digest(w, i) ==
    /\ i \notin eventMaps.seen[w]
    /\ eventMaps' = [eventMaps EXCEPT
                        !.states[w] = updateBy(@, eventMaps.broadcasts[i]),
                        !.seen[w] = @ \cup {i}]
    /\ UNCHANGED <<fleet, balancer, demandJob, clauseComm, collective, localBalancer>>

\* Reduceable: map i is merged into the reduction.
Reduce(i) ==
    /\ i \notin eventMaps.reduced
    /\ eventMaps' = [eventMaps EXCEPT
                        !.reduction = merge(@, eventMaps.broadcasts[i]),
                        !.reduced = @ \cup {i}]
    /\ UNCHANGED <<fleet, balancer, demandJob, clauseComm, collective, localBalancer>>

NextEvents ==
    \/ \E w \in EventWorkers, i \in Broadcasts : Digest(w, i)
    \/ \E i \in Broadcasts : Reduce(i)

SpecEvents == InitEvents /\ [][NextEvents]_vars

\* ------------------------------------------------- the demand of one job
DemandSizes == {1, 5, 8}
GrowthPeriods == {0, 1, 2}
MaxDemands == {0, 3}

\* A job that has just become ACTIVE (Job::start has set the time of its
\* activation), or one that is suspended at some volume.
InitDemand ==
    /\ IdleFleet
    /\ balancer = NoBalancer
    /\ eventMaps = NoEventMaps
    /\ clauseComm = NoClauseComm
    /\ collective = NoCollective
    /\ localBalancer = NoLocalBalancer
    /\ \E state \in {"ACTIVE", "SUSPENDED"}, size \in DemandSizes,
          growthPeriod \in GrowthPeriods, maxDemand \in MaxDemands :
          demandJob = [NoDemandJob EXCEPT
                          !.state = state, !.commSize = size,
                          !.growthPeriod = growthPeriod,
                          !.timeOfActivation = 1, !.maxDemand = maxDemand,
                          !.now = 1, !.volume = 1]

\* Timer::elapsedSeconds: a second passes.
Elapse ==
    /\ demandJob.now - demandJob.timeOfActivation < MaxElapsed
    /\ demandJob' = [demandJob EXCEPT !.now = @ + 1]
    /\ UNCHANGED <<fleet, balancer, eventMaps, clauseComm, collective, localBalancer>>

\* The balancer asks for the demand of the job.
AskDemand ==
    /\ \E d \in getDemand(demandJob, demandJob.volume, demandJob.now) :
          demandJob' = [demandJob EXCEPT
                           !.asked = TRUE, !.askedAt = demandJob.now,
                           !.demand = d,
                           !.askedBefore = demandJob.asked,
                           !.demandBefore = demandJob.demand]
    /\ UNCHANGED <<fleet, balancer, eventMaps, clauseComm, collective, localBalancer>>

NextDemand == Elapse \/ AskDemand

SpecDemand == InitDemand /\ [][NextDemand]_vars

\* ------------------------------------------- one node of a clause exchange
\* The payloads a node receives: the clauses of a leaf with the depth 0
\* appended, a merged buffer, and (distributed only) no ints at all.
Payloads == {<<0>>, <<7, 0>>, <<0, 7>>}
JobMessages ==
    { JobMessage(tag, epoch, payload) :
        tag \in {"GATHER_CLAUSES", "DISTRIBUTE_CLAUSES"},
        epoch \in 1 .. MaxCommEpoch, payload \in Payloads }
    \cup { JobMessage("DISTRIBUTE_CLAUSES", epoch, <<>>) :
             epoch \in 1 .. MaxCommEpoch }

InitClauses ==
    /\ IdleFleet
    /\ balancer = NoBalancer
    /\ eventMaps = NoEventMaps
    /\ demandJob = NoDemandJob
    /\ collective = NoCollective
    /\ localBalancer = NoLocalBalancer
    /\ \E state \in {"ACTIVE", "SUSPENDED"}, root \in BOOLEAN,
          left \in BOOLEAN, right \in BOOLEAN, initialized \in BOOLEAN :
          clauseComm = [NoClauseComm EXCEPT
                           !.state = state, !.isRoot = root,
                           !.hasLeftChild = left, !.hasRightChild = right,
                           !.fullyInitialized = initialized]

\* Job::communicate: the job wants to communicate.
InitiateCommunication ==
    /\ clauseComm.calls < MaxHandled /\ ~clauseComm.failed
    /\ \E jobCommEpoch \in 1 .. MaxCommEpoch :
          clauseComm' =
              [initiateCommunication([clauseComm EXCEPT !.hasShared = FALSE],
                                     jobCommEpoch) EXCEPT
                  !.handled = [tag |-> "NONE", epoch |-> jobCommEpoch,
                               payload |-> <<>>,
                               lastSharedJobComm |-> clauseComm.lastSharedJobComm],
                  !.calls = @ + 1]
    /\ UNCHANGED <<fleet, balancer, eventMaps, demandJob, collective, localBalancer>>

\* Job::communicate(source, msg): a JOB_COMMUNICATION message arrives.
ContinueCommunication ==
    /\ clauseComm.calls < MaxHandled /\ ~clauseComm.failed
    /\ \E msg \in JobMessages :
          clauseComm' =
              [continueCommunication([clauseComm EXCEPT !.hasShared = FALSE],
                                     msg) EXCEPT
                  !.handled = [tag |-> msg.tag, epoch |-> msg.epoch,
                               payload |-> msg.payload,
                               lastSharedJobComm |-> clauseComm.lastSharedJobComm],
                  !.calls = @ + 1]
    /\ UNCHANGED <<fleet, balancer, eventMaps, demandJob, collective, localBalancer>>

NextClauses == InitiateCommunication \/ ContinueCommunication

SpecClauses == InitClauses /\ [][NextClauses]_vars

\* ------------------------------------------- the collectives of an epoch
\* The balancers of a fleet of 1 .. MaxFleet workers go through the stages
\* of MaxCollEpochs epochs.  Each worker has local jobs or none, and, if
\* it has, fractional assignments (remainders) or none; the rounding is
\* probabilistic or by bisection.  A message is handed to the balancer
\* that has posted a receive for its source (messages of one sender to one
\* receiver arrive in the order they were sent).
MaxFleet == 5
MaxCollEpochs == 2

FleetOf(size) == 0 .. size - 1
Balancers == FleetOf(MaxFleet)

InitCollective ==
    /\ worker = [r \in Ranks |-> NewWorker]
    /\ chan = [s \in Nodes |-> [d \in Nodes |-> <<>>]]
    /\ deferred = [r \in Ranks |-> {}]
    /\ client = [j \in JobIds |-> [introduced |-> FALSE, done |-> 0, aborted |-> 0]]
    /\ lastTrans = {}
    /\ env = Scenario(0, 0, 0, FALSE, FALSE)
    /\ balancer = NoBalancer
    /\ eventMaps = NoEventMaps
    /\ demandJob = NoDemandJob
    /\ clauseComm = NoClauseComm
    /\ localBalancer = NoLocalBalancer
    /\ \E size \in 1 .. MaxFleet, rounding \in {"PROBABILISTIC", "BISECTION"} :
       \E localJobs \in SUBSET FleetOf(size) :
       \E fractional \in SUBSET localJobs :
          collective =
              [size |-> size, rounding |-> rounding,
               localJobs |-> localJobs,
               fractional |-> IF rounding = "BISECTION" THEN fractional ELSE {},
               balancers |-> [r \in FleetOf(size) |-> NewCollBalancer(r)],
               msgs |-> [s \in FleetOf(size) |-> [d \in FleetOf(size) |-> <<>>]]]

\* The messages a step has sent go to their receivers.
RECURSIVE deliverSent(_, _)
deliverSent(msgs, sent) ==
    IF sent = <<>> THEN msgs
    ELSE deliverSent([msgs EXCEPT ![Head(sent).source][Head(sent).dest] =
                                      Append(@, Head(sent))],
                     Tail(sent))

\* What a step of the balancer of r leaves behind; finishBalancing when
\* the step has ended the balancing.
CompleteStep(r, res) ==
    /\ collective' =
          [collective EXCEPT
              !.balancers[r] = [res.b EXCEPT !.sent = <<>>,
                                             !.balancing = ~res.done],
              !.msgs = deliverSent(@, res.b.sent)]
    /\ UNCHANGED <<fleet, balancer, eventMaps, demandJob, clauseComm, localBalancer>>

\* Worker::rebalance -> beginBalancing: the epoch begins at r, and the
\* all-reduction of the demands is started.
BeginCollective(r) ==
    /\ r \in FleetOf(collective.size)
    /\ ~collective.balancers[r].balancing
    /\ collective.balancers[r].epoch < MaxCollEpochs
    /\ CompleteStep(r,
          [b |-> [NewCollBalancer(r) EXCEPT
                     !.epoch = collective.balancers[r].epoch + 1,
                     !.stage = "INITIAL_DEMAND",
                     !.entered = <<"INITIAL_DEMAND">>,
                     !.balancing = TRUE],
           done |-> FALSE])

\* The all-reduction of an epoch is done at r once every worker has
\* contributed to it.
allReduced(r, stage) ==
    \A u \in FleetOf(collective.size) :
        \/ collective.balancers[u].epoch > collective.balancers[r].epoch
        \/ /\ collective.balancers[u].epoch = collective.balancers[r].epoch
           /\ \E i \in 1 .. Len(collective.balancers[u].entered) :
                 collective.balancers[u].entered[i] = stage

\* canContinueBalancing and continueBalancing() in stage INITIAL_DEMAND:
\* the worker builds its resources and starts their reduction.
DemandReduced(r) ==
    /\ r \in FleetOf(collective.size)
    /\ collective.balancers[r].balancing
    /\ collective.balancers[r].stage = "INITIAL_DEMAND"
    /\ allReduced(r, "INITIAL_DEMAND")
    /\ CompleteStep(r,
          continueBalancingHandle(
              [collective.balancers[r] EXCEPT
                  !.resourcesInfo.data = {r} \cap collective.localJobs,
                  !.built = @ \cup {"REDUCE_RESOURCES", "BROADCAST_RESOURCES"}],
              collective.size, NoHandle, collective.rounding,
              {r} \cap collective.fractional))

\* A MSG_COLLECTIVE_OPERATION message arrives at the receive r has posted:
\* continueBalancing(handle), and finishBalancing when it is done.
RecvCollective(r) ==
    /\ r \in FleetOf(collective.size)
    /\ collective.balancers[r].irecv # NoRank
    /\ LET source == collective.balancers[r].irecv
       IN  /\ collective.msgs[source][r] # <<>>
           /\ LET handle == [source |-> source,
                             data |-> Head(collective.msgs[source][r]).data,
                             stage |-> Head(collective.msgs[source][r]).stage,
                             epoch |-> Head(collective.msgs[source][r]).epoch]
                  res == continueBalancingHandle(
                             [collective.balancers[r] EXCEPT !.irecv = NoRank],
                             collective.size, handle, collective.rounding,
                             {r} \cap collective.fractional)
              IN  /\ collective' =
                        [collective EXCEPT
                            !.balancers[r] = [res.b EXCEPT !.sent = <<>>,
                                                           !.balancing = ~res.done],
                            !.msgs = deliverSent(
                                [@ EXCEPT ![source][r] = Tail(@)], res.b.sent)]
                  /\ UNCHANGED <<fleet, balancer, eventMaps, demandJob, clauseComm, localBalancer>>

\* canContinueBalancing and continueBalancing() in stage GLOBAL_ROUNDING:
\* the rounding of the epoch (followed in SpecBalance) ends the balancing.
RoundingReduced(r) ==
    /\ r \in FleetOf(collective.size)
    /\ collective.balancers[r].balancing
    /\ collective.balancers[r].stage = "GLOBAL_ROUNDING"
    /\ allReduced(r, "GLOBAL_ROUNDING")
    /\ CompleteStep(r, [b |-> collective.balancers[r], done |-> TRUE])

NextCollective ==
    \E r \in Balancers :
        \/ BeginCollective(r)
        \/ DemandReduced(r)
        \/ RecvCollective(r)
        \/ RoundingReduced(r)

SpecCollective == InitCollective /\ [][NextCollective]_vars

\* What the main loop of r finds to do for its balancer in its next cycle.
CanDemandReduce(r) ==
    /\ r \in FleetOf(collective.size)
    /\ collective.balancers[r].balancing
    /\ collective.balancers[r].stage = "INITIAL_DEMAND"
    /\ allReduced(r, "INITIAL_DEMAND")
CanRecvCollective(r) ==
    /\ r \in FleetOf(collective.size)
    /\ collective.balancers[r].irecv # NoRank
    /\ collective.msgs[collective.balancers[r].irecv][r] # <<>>

\* Every message that has been sent is delivered, and a worker goes on
\* with its balancing when it can: the main loop of every worker polls its
\* messages and tests its all-reductions in every cycle.
CollectiveFairness ==
    /\ \A r \in Balancers : WF_vars(BeginCollective(r))
    /\ \A r \in Balancers : WF_vars(RoundingReduced(r))
    /\ \A r \in Balancers :
          []<>(~CanDemandReduce(r)) \/ []<><<DemandReduced(r)>>_vars
    /\ \A r \in Balancers :
          []<>(~CanRecvCollective(r)) \/ []<><<RecvCollective(r)>>_vars

SpecCollectiveFair == SpecCollective /\ CollectiveFairness

\* -------------------------------------------- one worker begins to balance
\* The worker holds up to NumJobs fragments in any state a Job can be in; a
\* job that runs, is suspended or on standby has its description, a job
\* that is only stored or committed has none.
FragmentDemands == {1, 3}
Fragments ==
    {f \in [isRoot : BOOLEAN, state : JobStates, hasDesc : BOOLEAN,
            demand : FragmentDemands, priority : 1 .. NumJobs] :
        /\ f.state \in {"ACTIVE", "SUSPENDED", "STANDBY"} => f.hasDesc
        /\ f.state \in {"NONE", "STORED", "COMMITTED"} => ~f.hasDesc
        /\ (~f.isRoot \/ ~f.hasDesc) => f.demand = 1}
JobTables ==
    UNION {{t \in [S -> Fragments] : \A j \in S : t[j].priority = j} :
           S \in SUBSET JobIds}

InitLocal ==
    /\ IdleFleet
    /\ balancer = NoBalancer
    /\ eventMaps = NoEventMaps
    /\ demandJob = NoDemandJob
    /\ clauseComm = NoClauseComm
    /\ collective = NoCollective
    /\ \E jobs \in JobTables : localBalancer = [NoLocalBalancer EXCEPT !.jobs = jobs]

\* Worker::rebalance
BeginLocal ==
    /\ ~localBalancer.balancing /\ localBalancer.stage = "NONE"
    /\ localBalancer' = beginLocalBalancing(localBalancer, localBalancer.jobs)
    /\ UNCHANGED <<fleet, balancer, eventMaps, demandJob, clauseComm, collective>>

\* The all-reduction of the demands is done.
ContinueLocal ==
    /\ localBalancer.balancing /\ localBalancer.stage = "INITIAL_DEMAND"
    /\ localBalancer' = assignLocalJobs(localBalancer)
    /\ UNCHANGED <<fleet, balancer, eventMaps, demandJob, clauseComm, collective>>

NextLocal == BeginLocal \/ ContinueLocal

SpecLocal == InitLocal /\ [][NextLocal]_vars

\* ------------------------------------------------------------ properties
Known(r, j) == worker[r].jobs[j].known
StateOf(r, j) == getState(worker[r].jobs[j])
IndexOf(r, j) == worker[r].jobs[j].index
Hosts(r, j) == Known(r, j) /\ StateOf(r, j) \in {"ACTIVE", "SUSPENDED"}

\* The step takes the message at the head of the channel from s to d.
Consumed(s, d, tag) ==
    /\ HeadIs(s, d, tag)
    /\ chan'[s][d] = Tail(chan[s][d])

\* The step puts one more message with this tag on the channel from s to d.
NumOf(ch, s, d, tag) ==
    Cardinality({i \in 1 .. Len(ch[s][d]) : ch[s][d][i].tag = tag})
Sent(s, d, tag) == NumOf(chan', s, d, tag) > NumOf(chan, s, d, tag)

\* C1: on every worker a job that is ACTIVE is the worker's current job and
\* the load is 1, so at most one known job is ACTIVE; every other known job
\* is INACTIVE, COMMITTED, SUSPENDED or PAST.
C1_OneActiveJob ==
    \A r \in Ranks : \A j \in JobIds :
        Known(r, j) =>
            /\ StateOf(r, j) \in {"INACTIVE", "COMMITTED", "ACTIVE", "SUSPENDED", "PAST"}
            /\ StateOf(r, j) = "ACTIVE" =>
                  worker[r].load = 1 /\ worker[r].currentJob = j

\* A worker runs one job while it holds a suspended fragment of another.
C1_Witness ==
    \E r \in Ranks : \E j \in JobIds, k \in JobIds :
        /\ j # k /\ Known(r, j) /\ Known(r, k)
        /\ StateOf(r, j) = "ACTIVE" /\ worker[r].currentJob = j
        /\ StateOf(r, k) = "SUSPENDED"

\* C2: for every job and tree index, at most one worker holds an ACTIVE
\* fragment of the job at that index.
C2_UniqueActiveFragment ==
    \A j \in JobIds : \A r1 \in Ranks, r2 \in Ranks :
        (/\ r1 # r2
         /\ Known(r1, j) /\ StateOf(r1, j) = "ACTIVE"
         /\ Known(r2, j) /\ StateOf(r2, j) = "ACTIVE")
        => IndexOf(r1, j) # IndexOf(r2, j)

\* C3: the indices of the ACTIVE or SUSPENDED fragments of a job form a
\* subtree rooted at index 0: the parent index of every hosted non-root
\* index is hosted as well.
C3_ConnectedSubtree ==
    \A j \in JobIds : \A r \in Ranks :
        (Hosts(r, j) /\ IndexOf(r, j) > 0)
        => \E u \in Ranks :
              Hosts(u, j) /\ IndexOf(u, j) = (IndexOf(r, j) - 1) \div 2

\* C4: every change of a job's state made by a handler is a transition of
\* the lifecycle table, made by the operation the table names.
LifecycleTable ==
    { [from |-> "INACTIVE", to |-> "COMMITTED", op |-> "commit"],
      [from |-> "COMMITTED", to |-> "INACTIVE", op |-> "uncommit"],
      [from |-> "COMMITTED", to |-> "ACTIVE", op |-> "start"],
      [from |-> "ACTIVE", to |-> "SUSPENDED", op |-> "suspend"],
      [from |-> "SUSPENDED", to |-> "ACTIVE", op |-> "resume"],
      [from |-> "ACTIVE", to |-> "INACTIVE", op |-> "stop"] }
    \cup { [from |-> st, to |-> "PAST", op |-> "terminate"] :
              st \in {"INACTIVE", "COMMITTED", "ACTIVE", "SUSPENDED"} }

C4_LifecycleTransitions ==
    \A t \in lastTrans : [from |-> t.from, to |-> t.to, op |-> t.op] \in LifecycleTable

\* A handler has stopped and terminated the job it was running.
C4_Witness ==
    \E j \in JobIds :
        lastTrans = {[job |-> j, from |-> "ACTIVE", to |-> "INACTIVE", op |-> "stop"],
                     [job |-> j, from |-> "INACTIVE", to |-> "PAST", op |-> "terminate"]}

\* C5: a TERMINATE or ABORT taken by a worker whose fragment of the job is
\* SUSPENDED leaves the fragment PAST and fails no assertion.
C5_TerminateSuspended ==
    [][\A s \in Ranks, r \in Ranks :
          LET j == Head(chan[s][r]).jobId IN
          (/\ s # r
           /\ (Consumed(s, r, "TERMINATE") \/ Consumed(s, r, "ABORT"))
           /\ Known(r, j) /\ StateOf(r, j) = "SUSPENDED")
          => /\ worker'[r].failed = "none"
             /\ getState(worker'[r].jobs[j]) = "PAST"]_vars

\* C6: once a job is PAST on a worker, no step changes its state, its tree
\* pointers, its volume or its description on that worker.
Frame(job) ==
    <<job.state, job.committed, job.index, job.rootRank, job.parentRank,
      job.left, job.right, job.hasDesc, job.volume, job.lastVolume>>

C6_PastIsTerminal ==
    [][\A r \in Ranks : \A j \in JobIds :
          (Known(r, j) /\ worker[r].jobs[j].state = "PAST")
          => Frame(worker'[r].jobs[j]) = Frame(worker[r].jobs[j])]_vars

\* C7: no setLoad raises the load of a busy worker or lowers the load of an
\* idle one, and the current-job pointer is null exactly when the load is 0.
C7_LoadFlips ==
    \A r \in Ranks :
        /\ worker[r].failed \notin
              {"assert:setLoad:xor", "assert:setLoad:current", "assert:setLoad:hasJob"}
        /\ worker[r].load \in {0, 1}
        /\ (worker[r].currentJob = NoJob) <=> (worker[r].load = 0)

\* A worker that ran a job to its end is idle again.
C7_Witness ==
    \E r \in Ranks : \E j \in JobIds :
        /\ Known(r, j) /\ StateOf(r, j) = "PAST" /\ worker[r].jobs[j].hasDesc
        /\ worker[r].load = 0 /\ worker[r].currentJob = NoJob

\* C8: a job that is ACTIVE or SUSPENDED on a worker has its description
\* there.
C8_DescriptionPresent ==
    \A r \in Ranks : \A j \in JobIds : Hosts(r, j) => worker[r].jobs[j].hasDesc

\* A fragment below the root has received the description and was
\* suspended.
C8_Witness ==
    \E r \in Ranks : \E j \in JobIds :
        Known(r, j) /\ StateOf(r, j) = "SUSPENDED" /\ IndexOf(r, j) > 0
        /\ worker[r].jobs[j].hasDesc
\* C9: the placement messages follow the order REQUEST, ACCEPT, ACK,
\* description: an ACCEPT is sent only in reply to a REQUEST, an ACK only in
\* reply to an ACCEPT for a commitment that needs a full transfer, a
\* description only in reply to the ACK of its recipient, and a job leaves
\* COMMITTED for ACTIVE only in the step that takes its description.
C9_HandshakeOrder ==
    [][/\ \A p \in Nodes, w \in Ranks :
             /\ Sent(p, w, "ACCEPT_BECOME_CHILD")
                   => Consumed(w, p, "REQUEST_BECOME_CHILD")
             /\ Sent(w, p, "ACK_ACCEPT_BECOME_CHILD")
                   => /\ Consumed(p, w, "ACCEPT_BECOME_CHILD")
                      /\ worker[w].jobCommitments[Head(chan[p][w]).jobId].fullTransfer = 1
             /\ Sent(p, w, "SEND_JOB_DESCRIPTION")
                   => Consumed(w, p, "ACK_ACCEPT_BECOME_CHILD")
       /\ \A w \in Ranks : \A j \in JobIds :
             (StateOf(w, j) = "COMMITTED" /\ getState(worker'[w].jobs[j]) = "ACTIVE")
             => \E p \in Nodes :
                   /\ Consumed(p, w, "SEND_JOB_DESCRIPTION")
                   /\ Head(chan[p][w]).jobId = j /\ Head(chan[p][w]).val = 1]_vars

\* A fragment below the root has just started with the description its
\* parent sent.
C9_Witness ==
    \E r \in Ranks : \E j \in JobIds :
        /\ Known(r, j) /\ StateOf(r, j) = "ACTIVE" /\ IndexOf(r, j) > 0
        /\ lastTrans = {[job |-> j, from |-> "COMMITTED", to |-> "ACTIVE", op |-> "start"]}

\* C10: a REQUEST that is obsolete, that asks for a child slot already
\* taken, or that reaches a job that is not active is answered by a REJECT
\* with the request as it came, and changes nothing at the recipient; the
\* worker that takes a REJECT while the job is COMMITTED erases its
\* commitment and uncommits the job, and otherwise changes nothing.
C10_Rejection ==
    [][\A p \in Ranks, w \in Ranks :
          /\ (p # w /\ Consumed(w, p, "REQUEST_BECOME_CHILD"))
                => LET req == Head(chan[w][p]).req
                       job == worker[p].jobs[req.jobId]
                   IN  (\/ isRequestObsolete(Ctx(p), req)
                        \/ getState(job) # "ACTIVE"
                        \/ (req.requestedNodeIndex = 2 * job.index + 1 /\ job.left # NoRank)
                        \/ (req.requestedNodeIndex = 2 * job.index + 2 /\ job.right # NoRank))
                       => /\ chan'[p][w] = Append(chan[p][w],
                                Msg("REJECT_BECOME_CHILD", req.jobId, req, 0))
                          /\ worker'[p] = worker[p]
          /\ (p # w /\ Consumed(p, w, "REJECT_BECOME_CHILD"))
                => LET j == Head(chan[p][w]).req.jobId
                   IN  IF StateOf(w, j) = "COMMITTED"
                       THEN /\ worker'[w].jobCommitments[j] = NoReq
                            /\ ~worker'[w].jobs[j].committed
                            /\ getState(worker'[w].jobs[j]) = "INACTIVE"
                       ELSE worker'[w] = worker[w]]_vars

\* Where no job ever ends, a worker has taken a REJECT and uncommitted.
C10_Witness ==
    /\ ~env.results /\ ~env.limits
    /\ \E j \in JobIds :
          lastTrans = {[job |-> j, from |-> "COMMITTED", to |-> "INACTIVE", op |-> "uncommit"]}

DropsAtOnce(s, d) ==
    LET req == Head(chan[s][d]).req IN
    \/ isRequestObsolete(Ctx(d), req)
    \/ Known(d, req.jobId) /\ worker[d].jobs[req.jobId].state = "PAST"

\* C12: a FIND_NODE request that is obsolete, or whose job is PAST on the
\* recipient, is dropped: the recipient's jobs, commitments and load (its
\* whole state) are unchanged and it sends nothing, so the request is neither
\* adopted nor forwarded.
C12_ObsoleteRequestDropped ==
    [][\A s \in Nodes, d \in Ranks :
          (Consumed(s, d, "FIND_NODE") /\ DropsAtOnce(s, d))
          => /\ worker'[d] = worker[d]
             /\ \A x \in Nodes \ {d} : chan'[d][x] = chan[d][x]]_vars

\* An idle worker, which would adopt any other request, is about to poll a
\* request for a job that has already finished on it.
C12_Witness ==
    /\ NoCrash
    /\ \E s \in Nodes, d \in Ranks :
          /\ Alive(d) /\ HeadIs(s, d, "FIND_NODE")
          /\ LET req == Head(chan[s][d]).req IN
                /\ ~isRequestObsolete(Ctx(d), req)
                /\ Known(d, req.jobId) /\ worker[d].jobs[req.jobId].state = "PAST"
                /\ isIdle(Ctx(d)) /\ ~hasJobCommitments(Ctx(d))

\* No request for a child slot is in flight with more than 2N+1 hops.
NoLongWalk ==
    \A s \in Nodes, d \in Ranks : \A i \in 1 .. Len(chan[s][d]) :
        LET m == chan[s][d][i] IN
        (m.tag = "FIND_NODE" /\ m.req.requestedNodeIndex > 0)
            => m.req.numHops <= 2 * commSize + 1

\* C13: a FIND_NODE request for a non-root slot whose num_hops exceeds 2N is
\* never forwarded again: its recipient adopts it or drops it (it sends no
\* FIND_NODE and runs on), so no such request in flight carries more than
\* 2N+1 hops.
C13_NonRootHopCap ==
    /\ []NoLongWalk
    /\ [][\A s \in Nodes, d \in Ranks :
             (/\ Consumed(s, d, "FIND_NODE")
              /\ Head(chan[s][d]).req.requestedNodeIndex > 0
              /\ Head(chan[s][d]).req.numHops > 2 * commSize)
             => /\ \A x \in Nodes \ {d} : ~Sent(d, x, "FIND_NODE")
                /\ worker'[d].failed = "none"
                /\ \/ worker'[d] = worker[d]
                   \/ worker'[d].jobCommitments[Head(chan[s][d]).jobId]
                         = [Head(chan[s][d]).req EXCEPT
                               !.fullTransfer = worker'[d].jobCommitments[Head(chan[s][d]).jobId].fullTransfer]]_vars

\* The request in flight has been dropped (nothing is in flight any more)
\* where no request is obsolete and no job has finished, so that only the
\* hop cap can have dropped it.
C13_Witness ==
    /\ NoCrash
    /\ \A s \in Nodes, d \in Nodes : chan[s][d] = <<>>
    /\ \A r \in Ranks : worker[r].epoch = 0
    /\ \A r \in Ranks, j \in JobIds : StateOf(r, j) # "PAST"

\* C14: a FIND_NODE request for the root slot whose num_hops exceeds N/2 is
\* adopted by its recipient (idle, or by the permitted preemption) or
\* dropped; the recipient never forwards it to a further worker.
C14_RootHopCap ==
    [][\A s \in Nodes, d \in Ranks :
          (/\ Consumed(s, d, "FIND_NODE")
           /\ Head(chan[s][d]).req.requestedNodeIndex = 0
           /\ Head(chan[s][d]).req.numHops > commSize \div 2)
          => \A x \in Nodes \ {d} : ~Sent(d, x, "FIND_NODE")]_vars

\* Handling the request at the head of the channel from s to d suspends
\* job k on d.
SuspendsFor(s, d, k) ==
    /\ Consumed(s, d, "FIND_NODE")
    /\ Known(d, k) /\ StateOf(d, k) = "ACTIVE"
    /\ worker'[d].jobs[k].state = "SUSPENDED"

\* What the claim requires of a preemption: a root request beyond N/2 hops,
\* no pending commitment, and an active, non-root, childless current job.
MayPreempt(s, d) ==
    LET req == Head(chan[s][d]).req
        cur == worker[d].currentJob
    IN  /\ req.requestedNodeIndex = 0
        /\ req.numHops > commSize \div 2
        /\ \A j \in JobIds : worker[d].jobCommitments[j] = NoReq
        /\ cur # NoJob
        /\ StateOf(d, cur) = "ACTIVE"
        /\ IndexOf(d, cur) > 0
        /\ worker[d].jobs[cur].left = NoRank /\ worker[d].jobs[cur].right = NoRank

\* C15: handling a FIND_NODE suspends a job only in the permitted preemption
\* (root request beyond N/2 hops, no pending commitment, current job active,
\* non-root and childless), and then the worker sends WORKER_DEFECTING with
\* the job id and its own index to that job's parent, has load 0 and is
\* committed to the root request; in the permitted case it does preempt.
C15_OnlyPreemption ==
    [][\A s \in Nodes, d \in Ranks :
          /\ \A k \in JobIds :
                SuspendsFor(s, d, k)
                => LET req == Head(chan[s][d]).req
                       job == worker[d].jobs[k]
                   IN  /\ MayPreempt(s, d) /\ worker[d].currentJob = k
                       /\ chan'[d][job.parentRank]
                             = Append(chan[d][job.parentRank],
                                      Msg("WORKER_DEFECTING", k, NoReq, job.index))
                       /\ worker'[d].load = 0 /\ worker'[d].currentJob = NoJob
                       /\ worker'[d].jobs[req.jobId].committed
                       /\ worker'[d].jobs[req.jobId].index = 0
                       /\ worker'[d].jobCommitments[req.jobId].requestedNodeIndex = 0
                       /\ Sent(d, req.requestingNodeRank, "REQUEST_BECOME_CHILD")
          /\ (Consumed(s, d, "FIND_NODE") /\ MayPreempt(s, d))
                => SuspendsFor(s, d, worker[d].currentJob)]_vars

\* A worker has just suspended a fragment of one job and committed to the
\* root of another.
C15_Witness ==
    \E j \in JobIds, k \in JobIds :
        /\ j # k
        /\ lastTrans = {[job |-> k, from |-> "ACTIVE", to |-> "SUSPENDED", op |-> "suspend"],
                        [job |-> j, from |-> "INACTIVE", to |-> "COMMITTED", op |-> "commit"]}

\* The FIND_NODE messages in flight from worker d.
NumFindNode(ch, d) ==
    Cardinality({<<x, i>> \in (Nodes \ {d}) \X (1 .. (MaxChan + 2)) :
                    i <= Len(ch[d][x]) /\ ch[d][x][i].tag = "FIND_NODE"})

\* C16: on WORKER_DEFECTING (j, i) the parent unsets its child pointer for
\* index i of job j, leaves the other child pointer as it is, and sends
\* exactly one FIND_NODE, a fresh request for (j, i) with num_hops 0 and
\* itself as requesting node.
C16_DefectionReplaced ==
    [][\A s \in Ranks, d \in Ranks :
          Consumed(s, d, "WORKER_DEFECTING")
          => LET j == Head(chan[s][d]).jobId
                 i == Head(chan[s][d]).val
                 job == worker[d].jobs[j]
                 njob == worker'[d].jobs[j]
             IN  /\ worker'[d].failed = "none"
                 /\ i \in {getLeftChildIndex(job), getRightChildIndex(job)}
                 /\ i = getLeftChildIndex(job) => njob.left = NoRank /\ njob.right = job.right
                 /\ i = getRightChildIndex(job) => njob.right = NoRank /\ njob.left = job.left
                 /\ NumFindNode(chan', d) = NumFindNode(chan, d) + 1
                 /\ \E x \in Ranks \ {d} :
                       /\ Len(chan'[d][x]) = Len(chan[d][x]) + 1
                       /\ LET m == chan'[d][x][Len(chan'[d][x])] IN
                             /\ m.tag = "FIND_NODE"
                             /\ m.req.jobId = j /\ m.req.requestedNodeIndex = i
                             /\ m.req.numHops = 0 /\ m.req.requestingNodeRank = d
                 /\ \A x \in Nodes \ {d} :
                       /\ Len(chan'[d][x]) <= Len(chan[d][x]) + 1
                       /\ Len(chan'[d][x]) = Len(chan[d][x]) => chan'[d][x] = chan[d][x]]_vars

\* A preempted worker has left a child slot for the root of another job; its
\* parent has taken the notice, holds no pointer for the slot any more and
\* has a fresh request for the slot in flight.
C16_Witness ==
    \E s \in Ranks, d \in Ranks : \E j \in JobIds, k \in JobIds :
        /\ s # d /\ j # k
        /\ Known(s, j) /\ StateOf(s, j) = "SUSPENDED" /\ IndexOf(s, j) > 0
        /\ worker[s].jobs[j].parentRank = d
        /\ Known(s, k) /\ IndexOf(s, k) = 0 /\ worker[s].jobs[k].committed
        /\ \A i \in 1 .. Len(chan[s][d]) : chan[s][d][i].tag # "WORKER_DEFECTING"
        /\ Known(d, j) /\ s \in worker[d].jobs[j].past
        /\ worker[d].jobs[j].left # s /\ worker[d].jobs[j].right # s
        /\ \E x \in Ranks \ {d} : \E i \in 1 .. Len(chan[d][x]) :
              LET m == chan[d][x][i] IN
              /\ m.tag = "FIND_NODE" /\ m.req.jobId = j
              /\ m.req.requestedNodeIndex = IndexOf(s, j)
              /\ m.req.numHops = 0 /\ m.req.requestingNodeRank = d

\* C17: a volume v applied to an ACTIVE fragment at index i suspends the
\* fragment and sets the load to 0 if and only if i > 0 and i >= v, and
\* otherwise leaves it ACTIVE with load 1; no step takes a root fragment
\* from ACTIVE to SUSPENDED.
C17_ShrinkByVolume ==
    [][/\ \A s \in Ranks, d \in Ranks :
             LET j == Head(chan[s][d]).jobId
                 v == Head(chan[s][d]).val
                 i == IndexOf(d, j)
             IN  (/\ Consumed(s, d, "UPDATE_VOLUME")
                  /\ Known(d, j) /\ StateOf(d, j) = "ACTIVE")
                 => IF i > 0 /\ i >= v
                    THEN /\ worker'[d].jobs[j].state = "SUSPENDED"
                         /\ worker'[d].load = 0
                    ELSE /\ worker'[d].jobs[j].state = "ACTIVE"
                         /\ worker'[d].load = 1
       /\ \A d \in Ranks, j \in JobIds :
             (Known(d, j) /\ StateOf(d, j) = "ACTIVE" /\ IndexOf(d, j) = 0)
             => worker'[d].jobs[j].state # "SUSPENDED"]_vars

\* A fragment below the root has just been suspended by a volume that does
\* not reach its index, and nothing else changed state in that step.
C17_Witness ==
    \E r \in Ranks, j \in JobIds :
        /\ lastTrans = {[job |-> j, from |-> "ACTIVE", to |-> "SUSPENDED", op |-> "suspend"]}
        /\ StateOf(r, j) = "SUSPENDED" /\ IndexOf(r, j) > 0
        /\ worker[r].jobs[j].lastVolume <= IndexOf(r, j)
        /\ worker[r].load = 0

\* The step applies volume v to job j on worker d, where the fragment is
\* ACTIVE: d polls an UPDATE_VOLUME, or d completes a balancing epoch whose
\* result holds j.
AppliesVolume(d, j, v) ==
    /\ Known(d, j) /\ StateOf(d, j) = "ACTIVE"
    /\ \/ \E s \in Ranks : /\ Consumed(s, d, "UPDATE_VOLUME")
                           /\ Head(chan[s][d]).jobId = j /\ Head(chan[s][d]).val = v
       \/ /\ worker[d].balancing /\ ~worker'[d].balancing
          /\ j \in worker[d].balJobs /\ worker'[d].volumes[j] = v

\* The messages the step appends to the channel from d to x.
NewMsgs(d, x) ==
    {chan'[d][x][i] : i \in (Len(chan[d][x]) + 1) .. Len(chan'[d][x])}

\* What the step does for one child slot: ptr is the pointer before the step,
\* nptr the pointer after it, c the index of the slot.
ChildSlotRule(d, j, v, ptr, nptr, c) ==
    /\ nptr # NoRank => (nptr = ptr /\ c < v)
    /\ ptr # NoRank =>
          /\ Msg("UPDATE_VOLUME", j, NoReq, v) \in NewMsgs(d, ptr)
          /\ c >= v => nptr = NoRank
          /\ c < v => nptr = ptr
    /\ (ptr = NoRank /\ c < v /\
        \E x \in Ranks \ {d} : \E m \in NewMsgs(d, x) :
            m.tag = "FIND_NODE" /\ m.req.jobId = j /\ m.req.requestedNodeIndex = c)
          => /\ worker[d].jobs[j].hasDesc
             /\ worker[d].jobCommitments[j] = NoReq

\* C18: after a volume v is applied to an ACTIVE fragment at index i, for
\* each child index c in {2i+1, 2i+2}: a set pointer remains set only if
\* c < v; a set child with c >= v is sent the volume and unset; every child
\* that stays attached is sent the volume; and for an unset slot with c < v a
\* FIND_NODE for c is minted only if the worker holds the description and no
\* commitment entry for the job.
C18_ChildrenAfterVolume ==
    [][\A d \in Ranks, j \in JobIds, v \in 0 .. (commSize + 1) :
          AppliesVolume(d, j, v)
          => LET job == worker[d].jobs[j]
                 njob == worker'[d].jobs[j]
             IN  /\ ChildSlotRule(d, j, v, job.left, njob.left, getLeftChildIndex(job))
                 /\ ChildSlotRule(d, j, v, job.right, njob.right, getRightChildIndex(job))]_vars

\* A root has pruned a child by volume 1: it holds no pointer to the child
\* any more, and the volume it sent to the child is still in flight.
C18_Witness ==
    \E d \in Ranks, s \in Ranks, j \in JobIds :
        /\ s # d /\ Known(d, j) /\ StateOf(d, j) = "ACTIVE" /\ IndexOf(d, j) = 0
        /\ worker[d].jobs[j].lastVolume = 1
        /\ worker[d].jobs[j].left = NoRank /\ worker[d].jobs[j].right = NoRank
        /\ s \in worker[d].jobs[j].past
        /\ chan[d][s] # <<>>
        /\ chan[d][s][Len(chan[d][s])] = Msg("UPDATE_VOLUME", j, NoReq, 1)

\* The local state the claim compares: the job's state and child pointers,
\* the load, the last volume and the commitments, and whether the worker
\* still runs.
LocalState(c, j) ==
    [state |-> getState(c.w.jobs[j]), left |-> c.w.jobs[j].left,
     right |-> c.w.jobs[j].right, load |-> c.w.load,
     currentJob |-> c.w.currentJob, lastVolume |-> c.w.jobs[j].lastVolume,
     jobCommitments |-> c.w.jobCommitments, failed |-> c.w.failed]

\* The rank a request would be sent to does not enter the local state; the
\* job tree names some other worker.
SomeOther(d) == CHOOSE r \in Ranks : r # d

Once(d, j, v) == updateVolume(Ctx(d), j, v, SomeOther(d), SomeOther(d))
Twice(d, j, v) == updateVolume(Once(d, j, v), j, v, SomeOther(d), SomeOther(d))

\* C19: on every worker, in every state it reaches, applying the same volume
\* v to a job it knows twice in succession gives the same local state as
\* applying it once.
C19_VolumeIdempotent ==
    \A d \in Ranks, j \in JobIds :
        (Alive(d) /\ Known(d, j))
        => \A v \in 0 .. (commSize + 1) :
              LocalState(Twice(d, j, v), j) = LocalState(Once(d, j, v), j)

\* Applying a volume changes more than the last volume: it would suspend the
\* fragment on one worker and prune a child on another.
C19_Witness ==
    \E d \in Ranks, u \in Ranks, j \in JobIds :
        /\ d # u /\ Alive(d) /\ Known(d, j) /\ Alive(u) /\ Known(u, j)
        /\ StateOf(d, j) = "ACTIVE"
        /\ \E v \in 0 .. (commSize + 1) : getState(Once(d, j, v).w.jobs[j]) = "SUSPENDED"
        /\ \E v \in 0 .. (commSize + 1) :
              Once(u, j, v).w.jobs[j].left # worker[u].jobs[j].left

\* C20: a SEND_JOB_DESCRIPTION that holds the job id only erases the worker's
\* commitment for the job and uncommits the job if it is still COMMITTED
\* (any other job state is left alone); the worker stays idle, starts
\* nothing and sends nothing.
C20_EmptyDescription ==
    [][\A s \in Nodes, d \in Ranks :
          (Consumed(s, d, "SEND_JOB_DESCRIPTION") /\ Head(chan[s][d]).val = 0)
          => LET j == Head(chan[s][d]).jobId IN
             /\ worker'[d].failed = "none"
             /\ worker'[d].jobCommitments[j] = NoReq
             /\ IF StateOf(d, j) = "COMMITTED"
                THEN /\ ~worker'[d].jobs[j].committed
                     /\ worker'[d].jobs[j].state = "INACTIVE"
                ELSE worker'[d].jobs[j] = worker[d].jobs[j]
             /\ worker'[d].load = 0 /\ worker'[d].currentJob = NoJob
             /\ \A k \in JobIds : worker'[d].jobs[k].state # "ACTIVE"
             /\ \A x \in Nodes \ {d} : chan'[d][x] = chan[d][x]]_vars

\* A worker has just uncommitted on an empty description: its commitment is
\* gone, it is idle, and the TERMINATE its parent sent after the description
\* is the next message from that parent.
C20_Witness ==
    \E s \in Ranks, d \in Ranks, j \in JobIds :
        /\ s # d
        /\ lastTrans = {[job |-> j, from |-> "COMMITTED", to |-> "INACTIVE", op |-> "uncommit"]}
        /\ Known(d, j) /\ StateOf(d, j) = "INACTIVE" /\ ~worker[d].jobs[j].committed
        /\ worker[d].jobCommitments[j] = NoReq /\ worker[d].load = 0
        /\ worker[d].jobs[j].parentRank = s
        /\ HeadIs(s, d, "TERMINATE") /\ Head(chan[s][d]).jobId = j
        /\ Known(s, j) /\ StateOf(s, j) = "PAST"

\* C21: once the root has aborted job j for an exceeded limit, every worker
\* that holds a fragment of j (running, suspended or committed to a slot)
\* eventually has it in state PAST, all messages being delivered.
HoldsFragment(r, j) ==
    Known(r, j) /\ StateOf(r, j) \in {"ACTIVE", "SUSPENDED", "COMMITTED"}

C21_AbortReachesAll ==
    \A j \in JobIds, r \in Ranks :
        (client[j].aborted > 0 /\ HoldsFragment(r, j))
            ~> (Known(r, j) /\ StateOf(r, j) = "PAST")

\* C22: under bisection rounding the published volumes of an epoch sum to
\* at most the ceiling of N * L.
Published == balancer.epochs > 0 /\ ~balancer.balancing
SumOfVolumes == ISum(balancer.volumes, balancer.jobs)

C22_VolumesWithinCapacity ==
    Published =>
        SumOfVolumes <= FCeil(FMul(Whole(balancer.size), balancer.loadFactor))

\* C23: 8 workers, load factor 1, two jobs of priorities 1 and 3 that both
\* demand 8 nodes.  As stated: the published volumes sum to 8, about 6 for
\* priority 3 and about 2 for priority 1.
TwoJobsOfEight ==
    /\ balancer.size = 8 /\ balancer.loadFactor = Whole(1)
    /\ balancer.implicitJobs = 0 /\ balancer.jobs = {1, 2}
    /\ balancer.demands = <<8, 8>>
    /\ balancer.priorities = <<Whole(1), Whole(3)>>

C23_SumIsEight ==
    (TwoJobsOfEight /\ Published) =>
        /\ SumOfVolumes = 8
        /\ balancer.volumes[2] \in 5 .. 7
        /\ balancer.volumes[1] \in 1 .. 3

\* C23, amended: the fractional assignments are 5.5 and 2.5, whose equal
\* remainders are rounded up together (9 nodes) or down together; the
\* published volumes are 5 for priority 3 and 2 for priority 1, 7 in all.
C23_TwoJobsOfEight ==
    (TwoJobsOfEight /\ Published) => balancer.volumes = <<2, 5>>

C23_Witness == TwoJobsOfEight /\ Published /\ SumOfVolumes = 7

\* C24: EventMap merge is commutative and associative on the event maps of
\* a run (maps in which the events of one job and epoch are one event).
MapsAtHand ==
    {eventMaps.broadcasts[i] : i \in DOMAIN eventMaps.broadcasts}
        \cup {eventMaps.reduction}

C25_OrderOfUpdates ==
    (\A w \in DOMAIN eventMaps.seen : eventMaps.seen[w] = {1, 2, 3})
        => \A w \in DOMAIN eventMaps.states, v \in DOMAIN eventMaps.states :
              eventMaps.states[w] = eventMaps.states[v]

\* C26: the demand of an ACTIVE job in discrete mode, asked for t seconds
\* after its activation, is min(N, 2^(floor(t/g)+1) - 1) for a growth period
\* g > 0 and N for g <= 0, clamped by max_demand if that is set; it is 1 for
\* t < g, at least 1, at most N, and not below the demand asked for before.
\* (2^(k+1) - 1 exceeds every fleet size from k = 30 on.)
GrowthCurve(N, k) == IF k >= 30 THEN N ELSE IMin(N, 2 ^ (k + 1) - 1)
Clamped(d, maxDemand) == IF maxDemand > 0 THEN IMin(d, maxDemand) ELSE d

C26_DemandCurve ==
    (demandJob.state = "ACTIVE" /\ demandJob.asked) =>
        LET t == demandJob.askedAt - demandJob.timeOfActivation
            g == demandJob.growthPeriod
            N == demandJob.commSize
        IN  /\ g > 0 => demandJob.demand
                          = Clamped(GrowthCurve(N, t \div g), demandJob.maxDemand)
            /\ (g > 0 /\ t < g) => demandJob.demand = 1
            /\ g <= 0 => demandJob.demand = Clamped(N, demandJob.maxDemand)
            /\ demandJob.demand >= 1
            /\ demandJob.demand <= N
            /\ demandJob.askedBefore => demandJob.demandBefore <= demandJob.demand

\* C28: a gather message whose epoch is not newer than the epoch the node has
\* last shared for is discarded: nothing is digested, nothing is sent to the
\* children or to the parent.
LateGather ==
    /\ clauseComm'.calls = clauseComm.calls + 1
    /\ clauseComm'.handled.tag = "GATHER_CLAUSES"
    /\ clauseComm.lastSharedJobComm >= clauseComm'.handled.epoch

C28_LateGatherDiscarded ==
    [][LateGather =>
          /\ clauseComm'.digested = clauseComm.digested
          /\ clauseComm'.toChildren = clauseComm.toChildren
          /\ clauseComm'.toParent = clauseComm.toParent]_vars

\* C28, as the communicator of an ACTIVE job has it: such a message is not
\* collected and not passed to the parent; its clauses are sent to every
\* child and, if there are any and the solver is initialized, digested.
C28_LateGatherDistributed ==
    [][(LateGather /\ clauseComm.state = "ACTIVE") =>
          LET msg == clauseComm'.handled
              clauses == SubSeq(msg.payload, 1, Len(msg.payload) - 1)
              down == JobMessage("DISTRIBUTE_CLAUSES", msg.epoch, clauses)
          IN  /\ clauseComm'.toParent = clauseComm.toParent
              /\ clauseComm'.clauseBuffers = clauseComm.clauseBuffers
              /\ clauseComm'.numClauseSources = clauseComm.numClauseSources
              /\ clauseComm'.lastSharedJobComm = clauseComm.lastSharedJobComm
              /\ clauseComm'.toChildren =
                    clauseComm.toChildren
                    \o (IF clauseComm.hasLeftChild
                        THEN <<[to |-> "left", msg |-> down]>> ELSE <<>>)
                    \o (IF clauseComm.hasRightChild
                        THEN <<[to |-> "right", msg |-> down]>> ELSE <<>>)
              /\ clauseComm'.digested =
                    IF Len(clauses) > 0 /\ clauseComm.fullyInitialized
                    THEN Append(clauseComm.digested, clauses)
                    ELSE clauseComm.digested]_vars

\* A gather message of the epoch already shared for has been handled: its
\* clause was digested and sent to both children.
C28_Witness ==
    /\ clauseComm.state = "ACTIVE"
    /\ clauseComm.handled.tag = "GATHER_CLAUSES"
    /\ clauseComm.handled.epoch = clauseComm.handled.lastSharedJobComm
    /\ clauseComm.handled.payload = <<7, 0>>
    /\ clauseComm.digested # <<>>
    /\ clauseComm.digested[Len(clauseComm.digested)] = <<7>>
    /\ Len(clauseComm.toChildren) >= 2
    /\ clauseComm.toChildren[Len(clauseComm.toChildren)].msg
          = JobMessage("DISTRIBUTE_CLAUSES", clauseComm.handled.epoch, <<7>>)

\* C27: no worker begins a balancing while one is in flight, so the assertion
\* of beginBalancing on the local jobs of the balancing before never fails.
C27_OneBalancingInFlight ==
    \A r \in Ranks : worker[r].failed # "assert:localJobs"

\* A worker that has finished one balancing is in the next.
C27_Witness ==
    \E r \in Ranks : worker[r].epoch >= 1 /\ worker[r].balancing /\ NoCrash

\* C29: a worker that passes a FIND_NODE request on sends the request it
\* received with num_hops increased by one and every other field as it was.
C29_ForwardAddsOneHop ==
    [][\A s \in Nodes, d \in Ranks, x \in Nodes :
          (Consumed(s, d, "FIND_NODE") /\ Sent(d, x, "FIND_NODE")) =>
              LET m == Head(chan[s][d])
                  f == chan'[d][x][Len(chan'[d][x])]
              IN  /\ f.tag = "FIND_NODE"
                  /\ f.jobId = m.jobId
                  /\ f.req = [m.req EXCEPT !.numHops = m.req.numHops + 1]
                  /\ f.req.numHops > m.req.numHops]_vars

\* A request that has been passed on twice is in flight.
C29_Witness ==
    \E s \in Nodes, d \in Nodes :
        \E i \in 1 .. Len(chan[s][d]) :
            /\ chan[s][d][i].tag = "FIND_NODE"
            /\ chan[s][d][i].req.numHops >= 2

\* C30: a child pointer of a job comes to name a worker only in the step
\* that handles this worker's ACK_ACCEPT_BECOME_CHILD (never for a worker
\* that has only sent REQUEST_BECOME_CHILD), and the pointer of a slot is
\* unset by the step that handles the WORKER_DEFECTING for the slot.
ComesToName(r, j, w) ==
    \/ worker'[r].jobs[j].left = w /\ worker[r].jobs[j].left # w
    \/ worker'[r].jobs[j].right = w /\ worker[r].jobs[j].right # w

DefectionHandled(r, j, w) ==
    /\ Consumed(w, r, "WORKER_DEFECTING")
    /\ Head(chan[w][r]).jobId = j
    /\ worker'[r].failed = "none"

C30_ChildPointerAcknowledged ==
    [][\A r \in Ranks, j \in JobIds, w \in Ranks :
          /\ ComesToName(r, j, w) => Consumed(w, r, "ACK_ACCEPT_BECOME_CHILD")
          /\ DefectionHandled(r, j, w) =>
                LET job == worker'[r].jobs[j]
                    index == Head(chan[w][r]).val
                IN  /\ index = getLeftChildIndex(job) => ~hasLeftChild(job)
                    /\ index = getRightChildIndex(job) => ~hasRightChild(job)]_vars

\* ------------------------------------------------------------------ C31
\* The ranks whose contributions reach r in a reduction: r itself and the
\* ranks above it up to the next rank that sends at a lower power.
RECURSIVE LowBit(_)
LowBit(r) == IF r % 2 = 1 THEN 1 ELSE 2 * LowBit(r \div 2)
Subtree(r) ==
    IF r = 0 THEN FleetOf(collective.size)
    ELSE {s \in FleetOf(collective.size) : r <= s /\ s < r + LowBit(r)}
Contributions(f) ==
    IF f = "resourcesInfo" THEN collective.localJobs ELSE collective.fractional
Reduceables == {"resourcesInfo", "remainders"}

\* C31: a rank ends its reduction holding the merge of the contributions
\* of its reduction subtree (rank 0: of all ranks), and a rank that is not
\* excluded ends the broadcast holding what rank 0 holds.
C31_ReduceBroadcastIsBarrier ==
    \A r \in FleetOf(collective.size), f \in Reduceables :
        LET b == collective.balancers[r]
            zero == collective.balancers[0]
        IN  /\ b.reduced[f] # <<>> =>
                  /\ Len(b.reduced[f]) = 1
                  /\ b.reduced[f][1] = Contributions(f) \cap Subtree(r)
            /\ (f \in b.finished /\ r \notin b[f].excludedRanks) =>
                  /\ b[f].data = Contributions(f)
                  /\ zero.epoch = b.epoch =>
                        /\ zero.reduced[f] # <<>>
                        /\ b[f].data = zero.reduced[f][1]
                        /\ b[f].data = zero[f].data

C31_Witness ==
    /\ collective.size = MaxFleet
    /\ collective.fractional = {0, 1}
    /\ collective.localJobs = {0, 1}
    /\ "remainders" \in collective.balancers[1].finished
    /\ collective.balancers[1].remainders.data = {0, 1}
    /\ 2 \in collective.balancers[0].remainders.excludedRanks
\* ------------------------------------------------------------------ C32
AllBalanced ==
    \A r \in FleetOf(collective.size) :
        /\ collective.balancers[r].epoch = MaxCollEpochs
        /\ ~collective.balancers[r].balancing
        /\ collective.balancers[r].irecv = NoRank
ExcludedNeverWaits ==
    \A r \in FleetOf(collective.size), f \in Reduceables :
        LET b == collective.balancers[r]
        IN  (r \in b[f].excludedRanks /\ b.reduced[f] # <<>>) => b.irecv = NoRank

\* C32: whatever the size of the fleet and whichever ranks have nothing to
\* contribute, every rank's reductions and broadcasts come to an end when
\* every message is delivered, no message is left over, and a rank that
\* has excluded itself waits for no broadcast.
C32_CollectivesComplete ==
    /\ <>[](AllBalanced /\ \A s, d \in FleetOf(collective.size) :
                               collective.msgs[s][d] = <<>>)
    /\ []ExcludedNeverWaits

C32_Witness ==
    /\ AllBalanced
    /\ collective.size = MaxFleet
    /\ collective.rounding = "BISECTION"
    /\ collective.localJobs = {1, 4}
    /\ collective.fractional = {4}
    /\ 2 \in collective.balancers[2].resourcesInfo.excludedRanks
    /\ 1 \in collective.balancers[1].remainders.excludedRanks
    /\ collective.balancers[4].remainders.data = {4}
\* ------------------------------------------------------------------ C33
StageNumber(stage) ==
    CASE stage = "INITIAL_DEMAND" -> 1
      [] stage = "REDUCE_RESOURCES" -> 2
      [] stage = "BROADCAST_RESOURCES" -> 3
      [] stage = "REDUCE_REMAINDERS" -> 4
      [] stage = "BROADCAST_REMAINDERS" -> 5
      [] stage = "GLOBAL_ROUNDING" -> 6
      [] OTHER -> 0

\* C33: in an epoch the stages a balancer enters ascend, and a collective
\* message is consumed in the stage and the epoch it was sent in, after
\* the balancer has built its own contribution for that stage.
C33_StagesOnlyForward ==
    \A r \in FleetOf(collective.size) :
        LET b == collective.balancers[r]
        IN  /\ \A i \in 1 .. Len(b.entered) - 1 :
                  StageNumber(b.entered[i]) < StageNumber(b.entered[i + 1])
            /\ b.stage # "NONE" => b.stage = b.entered[Len(b.entered)]
            /\ \A c \in b.consumed :
                  /\ c.sentIn = c.usedIn
                  /\ c.sentInEpoch = b.epoch
                  /\ c.usedIn \in c.built

C33_Witness ==
    \E r \in FleetOf(collective.size) :
        LET b == collective.balancers[r]
        IN  /\ b.epoch = MaxCollEpochs
            /\ b.stage = "GLOBAL_ROUNDING"
            /\ \E c \in b.consumed : c.usedIn = "BROADCAST_REMAINDERS"
            /\ \E c \in b.consumed : c.usedIn = "REDUCE_RESOURCES"
            /\ \E u \in FleetOf(collective.size) :
                  collective.balancers[u].stage = "BROADCAST_REMAINDERS"
\* ------------------------------------------------------------------ C34
Began == localBalancer.stage # "NONE"
Contributing == DOMAIN localBalancer.demands \cup DOMAIN localBalancer.priorities
RootTakingPart(job) ==
    /\ job.isRoot
    /\ \/ job.state \in {"ACTIVE", "STANDBY"}
       \/ isInitializing(job) /\ job.hasDesc

\* C34 as stated: demand and priority are contributed only for roots that
\* are active, on standby, or initializing with their description; a
\* fragment that is not the root contributes no demand, is in no
\* assignment, and sets the busy flag.
C34_OnlyRootsContribute ==
    Began =>
        /\ \A j \in Contributing : RootTakingPart(localBalancer.jobs[j])
        /\ \A j \in DOMAIN localBalancer.jobs :
              ~localBalancer.jobs[j].isRoot =>
                  /\ j \notin Contributing
                  /\ j \notin localBalancer.assignments
                  /\ localBalancer.contrib.busy = 1

\* C34 amended: a fragment that is not the root sets the busy flag when it
\* is active or initializing to active, as a root does; the flag is set by
\* nothing else.
C34_BusyByRunningFragments ==
    Began =>
        /\ \A j \in Contributing : RootTakingPart(localBalancer.jobs[j])
        /\ \A j \in DOMAIN localBalancer.jobs :
              ~localBalancer.jobs[j].isRoot =>
                  /\ j \notin Contributing
                  /\ j \notin localBalancer.assignments
        /\ (localBalancer.contrib.busy = 1) =
              (\E j \in DOMAIN localBalancer.jobs :
                  localBalancer.jobs[j].state \in {"ACTIVE", "INITIALIZING_TO_ACTIVE"})
        /\ localBalancer.contrib.aggregatedDemand =
              SumOver([j \in DOMAIN localBalancer.jobs |->
                          IF j \in Contributing
                          THEN (localBalancer.jobs[j].demand - 1)
                               * localBalancer.jobs[j].priority
                          ELSE 0],
                      DOMAIN localBalancer.jobs)

\* A worker that is the root of one job and holds an active fragment of
\* another has begun to balance.
C34_Witness ==
    /\ localBalancer.stage = "REDUCE_RESOURCES"
    /\ DOMAIN localBalancer.jobs = JobIds
    /\ localBalancer.jobs[1].isRoot /\ localBalancer.jobs[1].state = "STANDBY"
    /\ localBalancer.jobs[1].demand = 3
    /\ ~localBalancer.jobs[2].isRoot /\ localBalancer.jobs[2].state = "ACTIVE"
    /\ localBalancer.assignments = {1}
    /\ localBalancer.contrib.busy = 1
\* ------------------------------------------------------------------ C35
EventMapsAtHand ==
    MapsAtHand \cup {eventMaps.states[w] : w \in DOMAIN eventMaps.states}
Keys(map) == {map[i].jobId : i \in 1 .. Len(map)}

\* C35: the merge of two event maps has the keys of both; a job of one map
\* only keeps its entry; a job of both gets the entry of the larger epoch,
\* and entries of the same epoch are the same event (filterBy asserts it).
C35_MergeTakesNewerEvent ==
    \A A \in EventMapsAtHand, B \in EventMapsAtHand :
        LET M == merge(A, B) IN
        /\ Keys(M) = Keys(A) \cup Keys(B)
        /\ \A j \in Keys(M) : count(M, j) = 1
        /\ \A j \in Keys(A) \ Keys(B) : at(M, j) = at(A, j)
        /\ \A j \in Keys(B) \ Keys(A) : at(M, j) = at(B, j)
        /\ \A j \in Keys(A) \cap Keys(B) :
              /\ at(M, j) \in {at(A, j), at(B, j)}
              /\ at(M, j).epoch >= at(A, j).epoch
              /\ at(M, j).epoch >= at(B, j).epoch
              /\ at(A, j).epoch = at(B, j).epoch => at(A, j) = at(B, j)
        /\ ~filterBy(A, B).failed

\* Two broadcasts hold job 1 with different epochs, a third holds it with
\* the epoch of one of them, and job 2 is in one of the maps only.
C35_Witness ==
    /\ eventMaps.reduced = {1, 2, 3}
    /\ \A i \in {1, 2, 3} : count(eventMaps.broadcasts[i], 1) = 1
    /\ at(eventMaps.broadcasts[1], 1).epoch < at(eventMaps.broadcasts[2], 1).epoch
    /\ at(eventMaps.broadcasts[3], 1).epoch = at(eventMaps.broadcasts[2], 1).epoch
    /\ count(eventMaps.broadcasts[1], 2) = 0
    /\ count(eventMaps.broadcasts[3], 2) = 1
    /\ at(eventMaps.reduction, 1) = at(eventMaps.broadcasts[2], 1)
\* ------------------------------------------------------------------ C36
LastInt(payload) == payload[Len(payload)]
SentUp == clauseComm.toParent[Len(clauseComm.toParent)]
RECURSIVE Power(_, _)
Power(m, d) == IF d = 0 THEN 1 ELSE m * Power(m, d - 1)

\* C36: buffers are merged under the cap S*m^d, d being the depth the
\* incoming gather message carries; a leaf sends the depth 0, and a node
\* that gathers sends upward the merged buffer with the depth d + 1.
C36_CapGrowsWithDepth ==
    LET d == LastInt(clauseComm.handled.payload) IN
    /\ (clauseComm.handled.tag = "NONE" /\ clauseComm.calls > 0
            /\ ~clauseComm.isRoot) =>
          LastInt(SentUp.payload) = 0
    /\ clauseComm.hasShared =>
          clauseComm.mergeLimit = CLAUSE_EXCHANGE_INITIAL_SIZE
                                      * Power(CLAUSE_EXCHANGE_MULTIPLIER, d)
    /\ (clauseComm.hasShared /\ ~clauseComm.isRoot) =>
          SentUp.payload = Append(clauseComm.shared, d + 1)

\* The depth in the messages of leaves, and the merged buffer sent upward
\* as it is, without a depth.
C36_DepthOfLeavesOnly ==
    LET d == LastInt(clauseComm.handled.payload) IN
    /\ (clauseComm.handled.tag = "NONE" /\ clauseComm.calls > 0
            /\ ~clauseComm.isRoot) =>
          LastInt(SentUp.payload) = 0
    /\ clauseComm.hasShared =>
          /\ clauseComm.maxSize = CLAUSE_EXCHANGE_INITIAL_SIZE
                                      * Power(CLAUSE_EXCHANGE_MULTIPLIER, d)
          /\ clauseComm.mergeLimit = CLAUSE_EXCHANGE_INITIAL_SIZE
                                      * Power(CLAUSE_EXCHANGE_MULTIPLIER, d + 1)
    /\ (clauseComm.hasShared /\ ~clauseComm.isRoot) =>
          SentUp.payload = clauseComm.shared
\* ------------------------------------------------------------------ C37
CommittedJobs(r) == {j \in JobIds : worker[r].jobCommitments[j] # NoReq}

\* C37: a worker holds at most one commitment, and holds one only while its
\* load is 0; a handler stores a commitment only in a worker that held none
\* before and whose load is 0 afterwards.
C37_OneCommitmentWhileIdle ==
    [][\A r \in Ranks :
          (worker[r].failed = "none" /\ worker'[r].failed = "none") =>
             /\ Cardinality(CommittedJobs(r)') <= 1
             /\ (CommittedJobs(r)' # {} => worker'[r].load = 0)
             /\ \A j \in JobIds :
                   (/\ worker'[r].jobCommitments[j] # NoReq
                    /\ worker'[r].jobCommitments[j] # worker[r].jobCommitments[j])
                   => (CommittedJobs(r) = {} /\ worker'[r].load = 0)]_vars

\* A busy worker has given up its job for a root request and committed to
\* it, while another worker holds a commitment as well.
C37_Witness ==
    /\ lastTrans # {}
    /\ \E r \in Ranks, q \in Ranks :
          /\ q # r
          /\ worker[r].failed = "none" /\ worker[q].failed = "none"
          /\ CommittedJobs(q) # {}
          /\ \E j \in JobIds, k \in JobIds :
                /\ k # j
                /\ CommittedJobs(r) = {j}
                /\ [job |-> k, from |-> "ACTIVE", to |-> "SUSPENDED",
                    op |-> "suspend"] \in lastTrans
                /\ worker[r].jobs[k].state = "SUSPENDED"
\* ------------------------------------------------------------------ C38
TerminateDeferred(r, j) ==
    \E h \in deferred[r] : h.msg.tag = "TERMINATE" /\ h.msg.jobId = j

\* A TERMINATE taken by a worker whose fragment of the job is COMMITTED is
\* kept as a deferred handle.
DeferredWhileCommitted ==
    \A s \in Ranks, d \in Ranks :
        (/\ HeadIs(s, d, "TERMINATE")
         /\ Known(d, Head(chan[s][d]).jobId)
         /\ StateOf(d, Head(chan[s][d]).jobId) = "COMMITTED"
         /\ Taken(s, d)
         /\ worker'[d].failed = "none")
        => [src |-> s, msg |-> Head(chan[s][d])] \in deferred'[d]

InFlight(tag, j) ==
    {x \in Nodes \X Nodes \X (1 .. MaxChan) :
        /\ x[3] <= Len(chan[x[1]][x[2]])
        /\ chan[x[1]][x[2]][x[3]].tag = tag
        /\ chan[x[1]][x[2]][x[3]].jobId = j}

\* Notifications of the client the root of job j has caused: JOB_DONE at the
\* client, and the client's rank on its way to a finder.
Notifications(j) == client[j].done + Cardinality(InFlight("FORWARD_CLIENT_RANK", j))

\* C39: the root answers the first WORKER_FOUND_RESULT of a job by a
\* notification (JOB_DONE to the client, or the client's rank to the finder)
\* and is PAST afterwards; it discards every later one; at most one
\* notification is ever caused per job.
C39_OneResultNotifiesClient ==
    [][/\ \A j \in JobIds : Notifications(j)' <= 1
       /\ \A s \in Ranks, d \in Ranks, j \in JobIds :
             (/\ HeadIs(s, d, "WORKER_FOUND_RESULT")
              /\ Head(chan[s][d]).jobId = j
              /\ Taken(s, d)
              /\ worker'[d].failed = "none")
             => IF StateOf(d, j) = "PAST"
                THEN /\ worker'[d] = worker[d]
                     /\ client' = client
                     /\ \A x \in Nodes : x # s => chan'[d][x] = chan[d][x]
                     /\ s # d => chan'[d][s] = chan[d][s]
                ELSE /\ StateOf(d, j)' = "PAST"
                     /\ Notifications(j)' = Notifications(j) + 1]_vars

\* Two workers have reported a result of job j, the root has handled both
\* reports, and the client has been notified once.
C39_Witness ==
    \E j \in JobIds, r \in Ranks, q \in Ranks :
        /\ r # q
        /\ worker[r].jobs[j].doneLocally /\ worker[q].jobs[j].doneLocally
        /\ InFlight("WORKER_FOUND_RESULT", j) = {}
        /\ Notifications(j) = 1
        /\ \A u \in Ranks : worker[u].failed = "none"
\* ------------------------------------------------------------------ C40
\* The requests worker d has minted in this step: the FIND_NODE messages it
\* has appended to a channel that name d as the requesting node and have
\* made no hop.
MintedBy(d) ==
    UNION {{chan'[d][x][i].req : i \in {n \in 1 .. Len(chan'[d][x]) :
                                     /\ n > Len(chan[d][x])
                                     /\ chan'[d][x][n].tag = "FIND_NODE"
                                     /\ chan'[d][x][n].req.numHops = 0
                                     /\ chan'[d][x][n].req.requestingNodeRank = d}}
           : x \in Ranks \ {d}}

\* C40: every FIND_NODE a worker mints for job j asks for one of the two
\* child slots of its own index, a slot below the volume of j last known to
\* it, and is minted while its fragment of j is ACTIVE.
C40_MintedRequestsWithinVolume ==
    [][\A d \in Ranks :
          worker'[d].failed = "none" =>
             \A req \in MintedBy(d) :
                /\ Known(d, req.jobId)'
                /\ req.requestedNodeIndex \in
                      {2 * worker'[d].jobs[req.jobId].index + 1,
                       2 * worker'[d].jobs[req.jobId].index + 2}
                /\ req.requestedNodeIndex < worker'[d].jobs[req.jobId].lastVolume
                /\ StateOf(d, req.jobId)' = "ACTIVE"]_vars

\* The requests minted on a volume application (every step but the taking
\* of a WORKER_DEFECTING) ask for a child slot below the last known volume
\* of an ACTIVE fragment.
C40_VolumeApplicationWithinVolume ==
    [][\A d \in Ranks :
          (/\ worker'[d].failed = "none"
           /\ ~\E s \in Ranks : HeadIs(s, d, "WORKER_DEFECTING") /\ Taken(s, d))
          => \A req \in MintedBy(d) :
                /\ Known(d, req.jobId)'
                /\ req.requestedNodeIndex \in
                      {2 * worker'[d].jobs[req.jobId].index + 1,
                       2 * worker'[d].jobs[req.jobId].index + 2}
                /\ req.requestedNodeIndex < worker'[d].jobs[req.jobId].lastVolume
                /\ StateOf(d, req.jobId)' = "ACTIVE"]_vars
====
